---- MODULE Spec2Model ----
(***************************************************************************)
(* Meshgram: the bridge between a Meshtastic radio mesh and a Telegram     *)
(* chat.  This module models the message-routing and delivery engine:      *)
(*   MeshtasticInterface  (src/src/meshtastic_interface.py)                *)
(*   MessageProcessor     (src/src/message_processor.py)                   *)
(*   TelegramInterface    (src/src/telegram_interface.py)                  *)
(*                                                                         *)
(* Conventions                                                             *)
(*  - Python None is the identifier 0 (radio and chat identifiers are      *)
(*    positive) and the last-attempt time -1.                              *)
(*  - A Python str that the code slices or measures is a sequence of       *)
(*    one-character strings; a chat text is a sequence of string pieces.   *)
(*  - Time is kept relative: a record carries its age (now - timestamp)    *)
(*    and a sleeping task the seconds it still has to sleep; Tick lets     *)
(*    TickStep seconds pass for all of them at once.                       *)
(*  - The variable last records what the last step did (the handler that  *)
(*    ran, the event it handled, the radio and chat calls it made, the    *)
(*    exception that left it, the warnings it logged).                     *)
(***************************************************************************)
EXTENDS Integers, Sequences, FiniteSets, TLC

\* ---------------------------------------------------------------- bounds
MaxEvents == 2      \* chat text events Telegram delivers
MaxPackets == 2     \* radio packets the radio delivers
MaxSends == 5       \* calls of the radio's sendText
MaxWaiters == 2     \* callers suspended in RateLimiter.wait at one time
MaxCloses == 2      \* calls of close() from outside the bridge
MaxUpdates == 2     \* update_node calls in a run, beyond history_limit for one node
MaxSetups == 2      \* calls of MeshtasticInterface.setup
TickStep == 30      \* seconds that pass in one Tick

\* ------------------------------------------------------ program constants
max_retries == 3
retry_interval == 60
ack_timeout == 60
ack_sweep_interval == 10
size_limit == 230
sender_limit == 10
rate_max_calls == 30
rate_period == 60
history_limit == 100
inactive_timeout == 300
lat_limit == 90
lon_limit == 180
alt_min == -1000
alt_max == 50000

None == 0
NoAttempt == -1

default_node_id == "!4e19d9a4"

\* ------------------------------------------------------------- strings
Min(a, b) == IF a < b THEN a ELSE b
Max(a, b) == IF a > b THEN a ELSE b

Rep(c, n) == [i \in 1..n |-> c]

\* s[:n]
Prefix(s, n) == SubSeq(s, 1, Min(n, Len(s)))


\* Remove the first element equal to x (list.remove(x)).
\* RemoveFirst_Keep leaves the list as it is.
RemoveFirst_Keep(list, x) == list

RECURSIVE RemoveFirst(_, _)
RemoveFirst(list, x) ==
    IF list = <<>> THEN <<>>
    ELSE IF Head(list) = x THEN Tail(list)
    ELSE <<Head(list)>> \o RemoveFirst(Tail(list), x)

\* Replace the first element equal to x by y (an attribute assignment on the
\* object x that the list holds).
RECURSIVE ReplaceFirst(_, _, _)
ReplaceFirst(list, x, y) ==
    IF list = <<>> THEN <<>>
    ELSE IF Head(list) = x THEN <<y>> \o Tail(list)
    ELSE <<Head(list)>> \o ReplaceFirst(Tail(list), x, y)

\* dict without key k (del d[k] / d.pop(k)).
DictRemove(d, k) == [x \in DOMAIN d \ {k} |-> d[x]]

\* d[k] = v
DictSet(d, k, v) == (k :> v) @@ d

Range(f) == {f[x] : x \in DOMAIN f}

\* d.get(k): <<d[k]>>, or <<>> for None when d has no key k.
Get(d, k) == IF k \in DOMAIN d THEN <<d[k]>> ELSE <<>>

\* d.get(k, default)
GetOr(d, k, default) == IF k \in DOMAIN d THEN d[k] ELSE default

\* --------------------------------------------------------- NodeManager
\* A node of the store, or [] when the store has none for node_id.
NodeOf(ns, node_id) == IF node_id \in DOMAIN ns THEN ns[node_id] ELSE <<>>

\* get_node(node_id): the record as a one-element sequence, <<>> for None.
GetNode(ns, node_id) == IF node_id \in DOMAIN ns THEN <<ns[node_id]>> ELSE <<>>

\* A history after one more snapshot. HistoryAfter_EvictNewest drops the
\* snapshot before the new one from a full history; HistoryAfter_NoLimit
\* drops none.
HistoryAfter_EvictNewest(history, snapshot) ==
    IF Len(history) + 1 > history_limit
    THEN Append(SubSeq(history, 1, Len(history) - 1), snapshot)
    ELSE Append(history, snapshot)

HistoryAfter(history, snapshot) ==
    LET appended == Append(history, snapshot)
    IN  IF Len(appended) > history_limit THEN Tail(appended) ELSE appended

\* The record of a node after update(data) and the stamp; last_updated is
\* held as the age of the stamp, 0 for datetime.now().
\* Merged_Replace puts data in the place of the record, Merged_StampFirst
\* sets the stamp before it merges data.
Merged_Replace(node, data) == [last_updated |-> 0] @@ data

Merged_StampFirst(node, data) == data @@ [last_updated |-> 0] @@ node

Merged(node, data) == [last_updated |-> 0] @@ data @@ node

\* update_node(node_id, data) on the store ns and the histories hist.
UpdateNode(ns, hist, node_id, data) ==
    LET updated == Merged(NodeOf(ns, node_id), data)
        history == IF node_id \in DOMAIN ns THEN hist[node_id] ELSE <<>>
    IN  [nodes |-> DictSet(ns, node_id, updated),
         node_history |-> DictSet(hist, node_id, HistoryAfter(history, updated))]

\* remove_node(node_id) on the store ns and the histories hist.
\* RemoveNode_RecordOnly pops the record and keeps the history.
RemoveNode_RecordOnly(ns, hist, node_id) ==
    [nodes |-> DictRemove(ns, node_id), node_history |-> hist]

RemoveNode(ns, hist, node_id) ==
    [nodes |-> DictRemove(ns, node_id), node_history |-> DictRemove(hist, node_id)]

\* update_node_telemetry(node_id, telemetry_data)
UpdateNodeTelemetry(ns, hist, node_id, telemetry_data) ==
    UpdateNode(ns, hist, node_id, telemetry_data)

\* update_node_position(node_id, position_data): latitude and longitude
\* stay in units of 1e-7 degrees.
UpdateNodePosition(ns, hist, node_id, position_data) ==
    IF {"latitudeI", "longitudeI"} \subseteq DOMAIN position_data
    THEN UpdateNode(ns, hist, node_id,
                    [latitude |-> position_data.latitudeI,
                     longitude |-> position_data.longitudeI,
                     last_position_update |-> 0])
    ELSE [nodes |-> ns, node_history |-> hist]

\* get_inactive_nodes(timeout): the ids, as a set.
\* GetInactiveNodes_AtLeast compares with >=.
GetInactiveNodes_AtLeast(ns, timeout) ==
    {node_id \in DOMAIN ns :
        "last_updated" \in DOMAIN ns[node_id] /\ ns[node_id].last_updated >= timeout}

GetInactiveNodes(ns, timeout) ==
    {node_id \in DOMAIN ns :
        "last_updated" \in DOMAIN ns[node_id] /\ ns[node_id].last_updated > timeout}

\* str(n) of a natural number, as its decimal digits.
RECURSIVE Digits(_)
Digits(n) ==
    LET digit == <<"0", "1", "2", "3", "4", "5", "6", "7", "8", "9">>[(n % 10) + 1]
    IN  IF n < 10 THEN <<digit>> ELSE Append(Digits(n \div 10), digit)

\* "PWR" if battery_level == 101 else f"{battery_level}%"; the level is
\* <<>> when the key is missing and the default 'N/A' is rendered.
\* BatteryStr_Full renders 100 as "PWR".
BatteryStr_Full(battery_level) ==
    IF battery_level = <<>> THEN <<"N", "/", "A", "%">>
    ELSE IF battery_level[1] >= 100 THEN <<"P", "W", "R">>
    ELSE Digits(battery_level[1]) \o <<"%">>

BatteryStr(battery_level) ==
    IF battery_level = <<>> THEN <<"N", "/", "A", "%">>
    ELSE IF battery_level[1] = 101 THEN <<"P", "W", "R">>
    ELSE Digits(battery_level[1]) \o <<"%">>

\* The characters escape_markdown(version=2) puts a backslash before
\* ("backtick" stands for the grave accent).
MarkdownSpecial ==
    {"_", "*", "[", "]", "(", ")", "~", "backtick", ">", "#", "+", "-", "=", "|", "{", "}",
     ".", "!"}

\* escape_value(value): escape_markdown, then the backslashes before
\* underscores, hyphens and periods are removed again.
RECURSIVE EscapeValue(_)
EscapeValue(value) ==
    IF value = <<>> THEN <<>>
    ELSE LET c == Head(value)
         IN  (IF c \in MarkdownSpecial \ {"_", "-", "."} THEN <<"\\", c>> ELSE <<c>>)
                 \o EscapeValue(Tail(value))

\* get_node_telemetry(node_id): what follows "Battery: " in the text, <<>>
\* when the store has no such node.
GetNodeTelemetry(ns, node_id) ==
    IF node_id \notin DOMAIN ns THEN <<>>
    ELSE EscapeValue(BatteryStr(Get(ns[node_id], "batteryLevel")))

\* _get_battery_status(battery_level) of MessageProcessor
GetBatteryStatus(battery_level) == BatteryStr(<<battery_level>>)

\* get_status(): what follows "Battery: " in the text for the node info
\* the radio returns.
GetStatus(node_info) == BatteryStr(Get(GetOr(node_info, "deviceMetrics", <<>>), "batteryLevel"))

\* ------------------------------------------------- MeshtasticInterface
\* @dataclass PendingMessage(text, recipient, attempts=0, last_attempt=None);
\* last_attempt is held as the seconds since that attempt.
PendingMessage(text, recipient) ==
    [text |-> text, recipient |-> recipient, attempts |-> 0, last_attempt |-> NoAttempt]

\* SendMessage_AlwaysPending: send_message that appends to pending_messages
\* in a finally block, after a successful send as well.
SendMessage_AlwaysPending(text, recipient, radio_ok) ==
    IF text = <<>> \/ recipient = "" \/ Len(text) > size_limit
    THEN [raised |-> "ValueError", calls |-> <<>>, pending |-> <<>>, result |-> None]
    ELSE [raised |-> "none",
          calls |-> <<[text |-> text, destinationId |-> recipient, ok |-> radio_ok]>>,
          pending |-> <<PendingMessage(text, recipient)>>,
          result |-> None]

\* send_message(text, recipient) when the radio's sendText succeeds
\* (radio_ok) or throws.  raised: the exception that leaves send_message;
\* calls: the sendText calls made; pending: what it appends to
\* pending_messages; result: the value it returns.  SendMessage_OffByOne
\* refuses a text of exactly size_limit characters as well.
SendMessage_OffByOne(text, recipient, radio_ok) ==
    IF text = <<>> \/ recipient = "" \/ Len(text) >= size_limit
    THEN [raised |-> "ValueError", calls |-> <<>>, pending |-> <<>>, result |-> None]
    ELSE [raised |-> "none",
          calls |-> <<[text |-> text, destinationId |-> recipient, ok |-> radio_ok]>>,
          pending |-> IF radio_ok THEN <<>> ELSE <<PendingMessage(text, recipient)>>,
          result |-> None]

\* SendMessage_NoLimit: send_message without the check of the length.
SendMessage_NoLimit(text, recipient, radio_ok) ==
    IF text = <<>> \/ recipient = ""
    THEN [raised |-> "ValueError", calls |-> <<>>, pending |-> <<>>, result |-> None]
    ELSE [raised |-> "none",
          calls |-> <<[text |-> text, destinationId |-> recipient, ok |-> radio_ok]>>,
          pending |-> IF radio_ok THEN <<>> ELSE <<PendingMessage(text, recipient)>>,
          result |-> None]

\* SendMessage_Broadcast: send_message that sends to every node.
SendMessage_Broadcast(text, recipient, radio_ok) ==
    IF text = <<>> \/ recipient = "" \/ Len(text) > size_limit
    THEN [raised |-> "ValueError", calls |-> <<>>, pending |-> <<>>, result |-> None]
    ELSE [raised |-> "none",
          calls |-> <<[text |-> text, destinationId |-> "^all", ok |-> radio_ok]>>,
          pending |-> IF radio_ok THEN <<>> ELSE <<PendingMessage(text, recipient)>>,
          result |-> None]

SendMessage(text, recipient, radio_ok) ==
    IF text = <<>> \/ recipient = ""
    THEN [raised |-> "ValueError", calls |-> <<>>, pending |-> <<>>, result |-> None]
    ELSE IF Len(text) > size_limit
    THEN [raised |-> "ValueError", calls |-> <<>>, pending |-> <<>>, result |-> None]
    ELSE [raised |-> "none",
          calls |-> <<[text |-> text, destinationId |-> recipient, ok |-> radio_ok]>>,
          pending |-> IF radio_ok THEN <<>> ELSE <<PendingMessage(text, recipient)>>,
          result |-> None]

\* No call of send_message.
NoSend == [raised |-> "none", calls |-> <<>>, pending |-> <<>>, result |-> None]

\* send_bell(dest_id): one sendText call; an exception of the radio is
\* logged and raised again.
SendBell(dest_id, radio_ok) ==
    IF dest_id = ""
    THEN [raised |-> "ValueError", calls |-> <<>>, pending |-> <<>>, result |-> None]
    ELSE [raised |-> IF radio_ok THEN "none" ELSE "Exception",
          calls |-> <<[text |-> <<"bell">>, destinationId |-> dest_id, ok |-> radio_ok]>>,
          pending |-> <<>>, result |-> None]

\* One sweep of process_pending_messages over copy = pending_messages[:],
\* from its i-th message on.  st.list is pending_messages, st.calls the
\* sendText calls made so far, st.log the warnings; oks[i] tells whether
\* the radio accepts the send made for copy[i].
RECURSIVE SweepPendingMessages(_, _, _, _)
SweepPendingMessages(copy, i, st, oks) ==
    IF i > Len(copy) THEN st
    ELSE LET message == copy[i] IN
        IF message.last_attempt = NoAttempt \/ message.last_attempt > retry_interval
        THEN IF message.attempts < max_retries
             THEN LET r == SendMessage(message.text, message.recipient, oks[i])
                      appended == st.list \o r.pending
                  IN  IF r.raised = "none"
                      THEN SweepPendingMessages(copy, i + 1,
                              [st EXCEPT !.list = RemoveFirst(appended, message),
                                         !.calls = @ \o r.calls], oks)
                      ELSE SweepPendingMessages(copy, i + 1,
                              [st EXCEPT !.list = ReplaceFirst(appended, message,
                                                    [message EXCEPT !.attempts = @ + 1,
                                                                    !.last_attempt = 0]),
                                         !.calls = @ \o r.calls], oks)
             ELSE SweepPendingMessages(copy, i + 1,
                     [st EXCEPT !.list = RemoveFirst(@, message),
                                !.log = Append(@, "Max retries reached for message")], oks)
        ELSE SweepPendingMessages(copy, i + 1, st, oks)

\* handle_ack(packet) of the radio interface: the item it puts on
\* message_queue.  A key the dict does not hold reads as "" / None / <<>>.
AckData(packet) ==
    [type |-> "ack", from |-> packet.fromId, to |-> packet.toId,
     message_id |-> packet.id,
     fromId |-> "", toId |-> "", portnum |-> "", id |-> None, payload |-> <<>>]

\* A decoded packet as the radio library hands it over.
Packet(fromId, toId, portnum, id, payload) ==
    [type |-> "", from |-> "", to |-> "", message_id |-> None,
     fromId |-> fromId, toId |-> toId, portnum |-> portnum, id |-> id,
     payload |-> payload]

\* --------------------------------------------------- TelegramInterface
\* The methods class TelegramInterface defines.
TelegramInterfaceMethods ==
    {"setup", "start_polling", "_shutdown_polling", "on_telegram_message",
     "send_message", "send_or_update_message", "on_telegram_location",
     "send_or_update_node_info", "generate_help_text", "start_command",
     "help_command", "is_user_authorized", "user_command", "handle_command",
     "close"}

\* self.telegram.<method>(...): the chat call it makes, or the
\* AttributeError of a method the class does not define.
TelegramCall(method, text, message_id) ==
    IF method \in TelegramInterfaceMethods
    THEN [chat |-> <<[op |-> method, text |-> text, message_id |-> message_id]>>,
          exc |-> "none"]
    ELSE [chat |-> <<>>, exc |-> "AttributeError"]

\* ---------------------------------------------------- MessageProcessor
\* str.lower() on the port names the radio library uses.
Lower(portnum) ==
    CASE portnum = "TEXT_MESSAGE_APP" -> "text_message_app"
      [] portnum = "NODEINFO_APP" -> "nodeinfo_app"
      [] portnum = "POSITION_APP" -> "position_app"
      [] portnum = "TELEMETRY_APP" -> "telemetry_app"
      [] portnum = "ADMIN_APP" -> "admin_app"
      [] portnum = "ROUTING_APP" -> "routing_app"
      [] portnum = "RANGE_TEST_APP" -> "range_test_app"
      [] OTHER -> portnum

\* f"[TG:{sender}] {text}" with sender = message['sender'][:10]
FormatTelegramText(sender, text) ==
    <<"[", "T", "G", ":">> \o Prefix(sender, sender_limit) \o <<"]", " ">> \o text

\* handle_telegram_text(message) on the pending acknowledgments acks, when
\* the radio accepts the send (radio_ok) or throws.  send: what
\* send_message did; acks: pending_acks afterwards; tasks: the
\* remove_pending_ack tasks created; chat: the chat calls made; exc: the
\* exception that leaves the handler (message['text'] of an event without
\* text is a KeyError).
HandleTelegramText(message, acks, radio_ok) ==
    IF ~({"sender", "text", "message_id"} \subseteq DOMAIN message)
    THEN [send |-> NoSend, acks |-> acks, tasks |-> <<>>, chat |-> <<>>,
          exc |-> "KeyError"]
    ELSE
    LET recipient == default_node_id
        telegram_message_id == message.message_id
        meshtastic_message == FormatTelegramText(message.sender, message.text)
        send == SendMessage(meshtastic_message, recipient, radio_ok)
        meshtastic_message_id == send.result
    IN  IF send.raised = "none"
        THEN [send |-> send,
              acks |-> DictSet(acks, meshtastic_message_id,
                               [telegram_message_id |-> telegram_message_id, age |-> 0]),
              tasks |-> <<[message_id |-> meshtastic_message_id, sleep |-> ack_timeout]>>,
              chat |-> <<>>,
              exc |-> "none"]
        ELSE LET c == TelegramCall("send_message",
                         <<"Failed to send message to Meshtastic. Please try again.">>, None)
             IN  [send |-> send, acks |-> acks, tasks |-> <<>>,
                  chat |-> c.chat, exc |-> c.exc]

\* str.isdigit(): a non-empty string of decimal digits.
IsDigit(s) ==
    /\ s # <<>>
    /\ \A i \in DOMAIN s : s[i] \in {"0", "1", "2", "3", "4", "5", "6", "7", "8", "9"}

\* int(s) of a string of decimal digits.
RECURSIVE ToInt(_)
ToInt(s) ==
    IF s = <<>> THEN 0
    ELSE LET last_digit == CHOOSE d \in 0..9 : Digits(d) = <<s[Len(s)]>>
         IN  10 * ToInt(SubSeq(s, 1, Len(s) - 1)) + last_digit

\* get_authorized_users(): the entries of telegram.authorized_users, each
\* held as its str(), that are strings of digits, as numbers.
GetAuthorizedUsers(entries) == {ToInt(user) : user \in {e \in entries : IsDigit(e)}}

\* is_user_authorized(user_id) under the configured entries users
IsUserAuthorized(user_id, users) ==
    LET authorized == GetAuthorizedUsers(users)
    IN  authorized = {} \/ user_id \in authorized

\* The cmd_<command> methods of MessageProcessor.
CmdHandlers == {"start", "help", "status", "bell", "node", "user"}

\* update.message.reply_text(text) of the update that carries message_id
Reply(text, message_id) == [op |-> "reply_text", text |-> text, message_id |-> message_id]

\* cmd_<command>(args, user_id, update): what the command handler does.
\* cmd_bell rings the node args[0] or the default node.
RunCommand(command, args, update, radio_ok) ==
    IF command = "bell"
    THEN LET dest_id == IF args # <<>> THEN args[1] ELSE default_node_id
             send == SendBell(dest_id, radio_ok)
         IN  [send |-> send,
              chat |-> <<Reply(IF send.raised = "none"
                               THEN <<"Bell sent to node ", dest_id>>
                               ELSE <<"Failed to send bell to node ", dest_id>>, update)>>]
    ELSE [send |-> NoSend, chat |-> <<Reply(<<"cmd_" \o command>>, update)>>]

\* handle_telegram_command(message) under the allow-list users.  ran: the
\* command handlers that ran.  The names of the inputs carry no "@bot"
\* suffix, so partition('@')[0] leaves them as they are.
HandleTelegramCommand(message, users, radio_ok) ==
    LET command == GetOr(message, "command", "")
        args == GetOr(message, "args", <<>>)
        user_id == GetOr(message, "user_id", None)
        update == GetOr(message, "update", None)
        quiet == [send |-> NoSend, chat |-> <<>>, exc |-> "none", log |-> <<>>,
                  ran |-> <<>>]
    IN  IF user_id = None \/ update = None
        THEN [quiet EXCEPT !.log = <<"Missing user_id or update in command message">>]
        ELSE IF ~IsUserAuthorized(user_id, users) /\ command \notin {"start", "help", "user"}
        THEN [quiet EXCEPT
                 !.chat = <<Reply(<<"You are not authorized to use this command.">>, update)>>]
        ELSE IF command \in CmdHandlers
        THEN LET r == RunCommand(command, args, update, radio_ok)
             IN  [quiet EXCEPT !.send = r.send, !.chat = r.chat,
                               !.ran = <<"cmd_" \o command>>]
        ELSE [quiet EXCEPT !.chat = <<Reply(<<"Unknown command: ", command>>, update)>>]

\* Coordinates are held in tenths: 455 is 45.5 degrees, 1000 is 100.0 m.
Scale == 10

\* is_valid_coordinate(lat, lon, alt); lat and lon are <<>> for None.
\* IsValidCoordinate_Exclusive compares with < in place of <=.
IsValidCoordinate_Exclusive(lat, lon, alt) ==
    /\ lat # <<>>
    /\ lon # <<>>
    /\ -lat_limit * Scale < lat[1] /\ lat[1] < lat_limit * Scale
    /\ -lon_limit * Scale < lon[1] /\ lon[1] < lon_limit * Scale
    /\ alt_min * Scale < alt /\ alt < alt_max * Scale

IsValidCoordinate(lat, lon, alt) ==
    /\ lat # <<>>
    /\ lon # <<>>
    /\ -lat_limit * Scale <= lat[1] /\ lat[1] <= lat_limit * Scale
    /\ -lon_limit * Scale <= lon[1] /\ lon[1] <= lon_limit * Scale
    /\ alt_min * Scale <= alt /\ alt <= alt_max * Scale

\* f"[TG:{sender}] location lat={lat:.6f}, lon={lon:.6f}, alt={alt:.1f}m":
\* the numbers are kept as the values they print.
FormatLocation(sender, lat, lon, alt) ==
    <<"[", "T", "G", ":">> \o sender \o <<"]", " ">>
    \o <<"location lat=", lat, ", lon=", lon, ", alt=", alt, "m">>

\* handle_telegram_location(message) when the radio accepts the send
\* (radio_ok) or throws.
HandleTelegramLocation(message, radio_ok) ==
    LET location == GetOr(message, "location", <<>>)
        lat == Get(location, "latitude")
        lon == Get(location, "longitude")
        alt == GetOr(location, "altitude", 0)
        sender == GetOr(message, "sender", <<"u", "n", "k", "n", "o", "w", "n">>)
        invalid(send) ==
            LET c == TelegramCall("send_message",
                         <<"Failed to send location to Meshtastic. Invalid data: ",
                           "Invalid coordinates">>, None)
            IN  [send |-> send, chat |-> c.chat, exc |-> c.exc,
                 log |-> <<"Invalid location data">>, ran |-> <<>>]
    IN  IF ~IsValidCoordinate(lat, lon, alt)
        THEN invalid(NoSend)
        ELSE LET send == SendMessage(FormatLocation(sender, lat[1], lon[1], alt),
                                     default_node_id, radio_ok)
             IN  IF send.raised = "ValueError"
                 THEN invalid(send)
                 ELSE LET c == TelegramCall("send_message",
                                   <<"Location sent to Meshtastic network: lat=", lat[1],
                                     ", lon=", lon[1], ", alt=", alt, "m">>, None)
                      IN  [send |-> send, chat |-> c.chat, exc |-> c.exc,
                           log |-> <<>>, ran |-> <<>>]

\* bool(v) of an optional string and of an optional number: None, '' and
\* 0 are false.
TruthyStr(v) == v # <<>> /\ v[1] # ""
TruthyInt(v) == v # <<>> /\ v[1] # 0

\* _store_message_id_mapping(telegram_id, meshtastic_id) on the two maps
StoreMessageIdMapping(map, reverse, telegram_id, meshtastic_id) ==
    [message_id_map |-> DictSet(map, telegram_id, meshtastic_id),
     reverse_message_id_map |-> DictSet(reverse, meshtastic_id, telegram_id)]

\* _get_meshtastic_message_id(telegram_message_id): message_id_map.get.
\* GetMeshtasticMessageId_Default returns "0" for a missing key.
GetMeshtasticMessageId_Default(map, telegram_message_id) ==
    IF telegram_message_id \in DOMAIN map THEN <<map[telegram_message_id]>>
    ELSE <<"0">>

GetMeshtasticMessageId(map, telegram_message_id) == Get(map, telegram_message_id)

\* send_reaction(emoji, message_id): one sendReaction call; an exception of
\* the radio is logged.
SendReaction(emoji, message_id, radio_ok) ==
    [calls |-> <<[emoji |-> emoji, messageId |-> message_id, ok |-> radio_ok]>>,
     log |-> IF radio_ok THEN <<"Reaction sent for message">>
             ELSE <<"Error sending reaction to Meshtastic">>]

\* handle_telegram_reaction(message) under the map of chat ids to radio ids
HandleTelegramReaction(message, map, radio_ok) ==
    LET emoji == Get(message, "emoji")
        original_message_id == Get(message, "original_message_id")
        none == [send |-> NoSend, chat |-> <<>>, exc |-> "none", ran |-> <<>>,
                 reaction |-> <<>>]
    IN  IF ~TruthyStr(emoji) \/ ~TruthyInt(original_message_id)
        THEN none @@ [log |-> <<"Missing emoji or original_message_id in reaction message">>]
        ELSE LET meshtastic_message_id ==
                     GetMeshtasticMessageId(map, original_message_id[1])
             IN  IF TruthyStr(meshtastic_message_id)
                 THEN LET r == SendReaction(emoji[1], meshtastic_message_id[1], radio_ok)
                      IN  [reaction |-> r.calls, log |-> r.log] @@ none
                 ELSE none @@ [log |-> <<"Could not find corresponding Meshtastic message">>]

\* handle_telegram_message(message): the handler of the type of the event.
HandleTelegramMessage(message, acks, users, map, radio_ok) ==
    LET same == [acks |-> acks, tasks |-> <<>>, reaction |-> <<>>] IN
    CASE message.type = "command" ->
             HandleTelegramCommand(message, users, radio_ok) @@ same
      [] message.type = "telegram" ->
             HandleTelegramText(message, acks, radio_ok)
                 @@ [log |-> <<>>, ran |-> <<>>, reaction |-> <<>>]
      [] message.type = "location" ->
             HandleTelegramLocation(message, radio_ok) @@ same
      [] message.type = "reaction" ->
             HandleTelegramReaction(message, map, radio_ok) @@ same
      [] OTHER ->
             [send |-> NoSend, chat |-> <<>>, exc |-> "none", ran |-> <<>>,
              log |-> <<"Received unknown message type">>] @@ same

\* handle_ack(packet) of the message processor on the pending
\* acknowledgments acks.  resolved: the record popped (as a sequence).  The
\* reaction is the check mark, written "OK".  HandleAck_NoGuard is the
\* handler without the guard on a missing id and with a pop that has no
\* default.
HandleAck_NoGuard(packet, acks) ==
    LET message_id == packet.id IN
    IF message_id \in DOMAIN acks
    THEN LET pending_message == acks[message_id]
             c == TelegramCall("add_reaction", <<"OK">>, pending_message.telegram_message_id)
         IN  [acks |-> DictRemove(acks, message_id), resolved |-> <<pending_message>>,
              chat |-> c.chat, exc |-> c.exc, log |-> <<>>]
    ELSE [acks |-> acks, resolved |-> <<>>, chat |-> <<>>, exc |-> "KeyError",
          log |-> <<>>]

HandleAck(packet, acks) ==
    LET message_id == packet.id IN
    IF message_id = None
    THEN [acks |-> acks, resolved |-> <<>>, chat |-> <<>>, exc |-> "none",
          log |-> <<"Received ACK without message ID">>]
    ELSE IF message_id \in DOMAIN acks
    THEN LET pending_message == acks[message_id]
             telegram_message_id == pending_message.telegram_message_id
         IN  IF telegram_message_id # None
             THEN LET c == TelegramCall("add_reaction", <<"OK">>, telegram_message_id)
                  IN  [acks |-> DictRemove(acks, message_id),
                       resolved |-> <<pending_message>>,
                       chat |-> c.chat, exc |-> c.exc,
                       log |-> IF c.exc = "none" THEN <<"ACK processed">> ELSE <<>>]
             ELSE [acks |-> DictRemove(acks, message_id),
                   resolved |-> <<pending_message>>,
                   chat |-> <<>>, exc |-> "none",
                   log |-> <<"ACK received, but no Telegram message ID found">>]
    ELSE [acks |-> acks, resolved |-> <<>>, chat |-> <<>>, exc |-> "none",
          log |-> <<"Received ACK for unknown message ID">>]

\* handle_text_message_app(packet)
HandleTextMessageApp(packet) ==
    LET c == TelegramCall("send_message",
                 <<"Meshtastic: ", packet.fromId, " -> ", packet.toId, "\n">> \o packet.payload,
                 None)
    IN  [chat |-> c.chat, exc |-> c.exc, log |-> <<>>]

\* handle_nodeinfo_app, handle_position_app and handle_telemetry_app: each
\* ends with self.telegram.send_or_edit_message(kind, node_id, info).
HandleNodeApp(packet, kind) ==
    LET c == TelegramCall("send_or_edit_message", <<kind, packet.fromId>>, None)
    IN  [chat |-> c.chat, exc |-> c.exc, log |-> <<>>]

\* The node_manager calls of handle_nodeinfo_app, handle_position_app and
\* handle_telemetry_app, which come before the chat call: the store ns and
\* the histories hist after the handler of packet.
HandleNodeStore(packet, ns, hist) ==
    LET handler == "handle_" \o Lower(packet.portnum)
        decoded == packet.payload
    IN
    CASE handler = "handle_nodeinfo_app" ->
             LET user == GetOr(decoded, "user", <<>>)
             IN  UpdateNode(ns, hist, packet.fromId,
                            [shortName |-> GetOr(user, "shortName", "unknown"),
                             longName |-> GetOr(user, "longName", "unknown"),
                             hwModel |-> GetOr(user, "hwModel", "unknown")])
      [] handler = "handle_position_app" ->
             UpdateNodePosition(ns, hist, packet.fromId, GetOr(decoded, "position", <<>>))
      [] handler = "handle_telemetry_app" ->
             UpdateNodeTelemetry(ns, hist, packet.fromId,
                 GetOr(GetOr(decoded, "telemetry", <<>>), "deviceMetrics", <<>>))
      [] OTHER -> [nodes |-> ns, node_history |-> hist]

\* handle_admin_app(packet) for a packet without admin content
HandleAdminApp(packet) ==
    [chat |-> <<>>, exc |-> "none", log |-> <<"Received unexpected admin message">>]

\* HandleMeshtasticMessage_Forward is the dispatch that hands a packet
\* without a handler of its own to the text handler.
HandleMeshtasticMessage_Forward(packet, acks) ==
    IF packet.type = "ack"
    THEN HandleAck(packet, acks)
    ELSE LET handler == "handle_" \o Lower(packet.portnum)
             same == [acks |-> acks, resolved |-> <<>>]
         IN
         CASE handler = "handle_nodeinfo_app" -> HandleNodeApp(packet, "nodeinfo") @@ same
           [] handler = "handle_position_app" -> HandleNodeApp(packet, "location") @@ same
           [] handler = "handle_telemetry_app" -> HandleNodeApp(packet, "telemetry") @@ same
           [] handler = "handle_admin_app" -> HandleAdminApp(packet) @@ same
           [] OTHER -> HandleTextMessageApp(packet) @@ same

\* handle_meshtastic_message(packet) on the pending acknowledgments acks.
\* getattr finds a handler for the port names text message, node info,
\* position, telemetry and admin; no other port name of the radio library
\* names a handle_ method of the processor.
HandleMeshtasticMessage(packet, acks) ==
    IF packet.type = "ack"
    THEN HandleAck(packet, acks)
    ELSE LET handler == "handle_" \o Lower(packet.portnum)
             same == [acks |-> acks, resolved |-> <<>>]
         IN
         CASE handler = "handle_text_message_app" -> HandleTextMessageApp(packet) @@ same
           [] handler = "handle_nodeinfo_app" -> HandleNodeApp(packet, "nodeinfo") @@ same
           [] handler = "handle_position_app" -> HandleNodeApp(packet, "location") @@ same
           [] handler = "handle_telemetry_app" -> HandleNodeApp(packet, "telemetry") @@ same
           [] handler = "handle_admin_app" -> HandleAdminApp(packet) @@ same
           [] OTHER -> [chat |-> <<>>, exc |-> "none",
                        log |-> <<"Unhandled Meshtastic message type">>] @@ same

\* The keys one sweep of process_pending_acks deletes: those of the records
\* more than ack_timeout seconds old.  ExpiredAcks_Minutes measures the age
\* of a record in minutes.
ExpiredAcks_Minutes(acks) ==
    {message_id \in DOMAIN acks : acks[message_id].age \div 60 > ack_timeout}

ExpiredAcks(acks) == {message_id \in DOMAIN acks : acks[message_id].age > ack_timeout}

\* remove_pending_ack(message_id) once its sleep is over: the key it deletes
TimedOutAcks(message_id, acks) == IF message_id \in DOMAIN acks THEN {message_id} ELSE {}

\* ------------------------------------------------------------- Meshgram
\* self.tasks of Meshgram.run
MainTasks ==
    {"process_messages", "process_thread_safe_queue", "process_pending_messages",
     "start_polling"}

\* self.processing_tasks of MessageProcessor.process_messages
ProcessingTasks ==
    {"process_meshtastic_messages", "process_telegram_messages", "process_pending_acks"}

\* components = [self.message_processor, self.telegram, self.meshtastic]
ShutdownOrder == <<"MessageProcessor", "TelegramInterface", "MeshtasticInterface">>

\* for task in names: if not task.done(): task.cancel()
Cancel(ts, names) ==
    [t \in DOMAIN ts |-> IF t \in names /\ ts[t] = "running" THEN "cancelling" ELSE ts[t]]

\* Has every task of names that was created finished?
AllDone(ts, names) == \A t \in names : ts[t] \in {"none", "done"}

\* try: await component.close() / except Exception: log -- the exception
\* that leaves the guarded close when close() raised `raised`.
\* GuardedClose_Unguarded is the call without try.
GuardedClose_Unguarded(raised) == raised

GuardedClose(raised) == "none"

\* if self.is_shutting_down: return -- does a call of shutdown() return at
\* once?  ShutdownSkips_Never is shutdown() without the latch.
ShutdownSkips_Never(latch) == FALSE

ShutdownSkips(latch) == latch

\* Where shutdown() stands once it is through with its i-th component.
AfterComponent(i) ==
    IF i < Len(ShutdownOrder) THEN [pc |-> "components", i |-> i + 1]
    ELSE [pc |-> "complete", i |-> i + 1]

\* close() of MessageProcessor up to its first await, on the tasks ts, the
\* list ptasks = processing_tasks and closing = is_closing.  skipped: the
\* call returned at once because a close is in progress; waits: it awaits
\* the gather of ptasks.
ProcessorClose(ts, ptasks, closing) ==
    IF closing
    THEN [skipped |-> TRUE, waits |-> FALSE, tasks |-> ts, processing_tasks |-> ptasks,
          is_closing |-> TRUE, cancelled |-> {}]
    ELSE [skipped |-> FALSE, waits |-> ptasks # {}, tasks |-> Cancel(ts, ptasks),
          processing_tasks |-> ptasks, is_closing |-> ptasks # {},
          cancelled |-> {t \in ptasks : ts[t] = "running"}]

\* A consumer loop after one round in which the handler raised exc: the
\* loop catches Exception and goes on; CancelledError breaks it.
\* ConsumerAfter_NoCatch is the loop without the except clause.
ConsumerAfter_NoCatch(exc) == IF exc = "none" THEN "running" ELSE "done"

ConsumerAfter(exc) == IF exc = "CancelledError" THEN "done" ELSE "running"

\* ------------------------------------------ MeshtasticInterface state
\* MeshtasticInterface.__init__; created and fetched count the calls of
\* _create_interface that returned and of getMyNodeInfo.
NewMeshtasticInterface ==
    [is_setup |-> FALSE, is_closing |-> FALSE, interface |-> "none",
     subscribed |-> FALSE, created |-> 0, fetched |-> 0]

\* setup(): _create_interface returns a device (create_ok) or raises;
\* getMyNodeInfo returns (fetch_ok) or raises, which _fetch_node_info logs.
\* MeshtasticSetup_FlagFirst sets is_setup before it creates the interface.
MeshtasticSetup_FlagFirst(m, create_ok, fetch_ok) ==
    IF ~create_ok
    THEN [state |-> [m EXCEPT !.is_setup = TRUE], exc |-> "Exception",
          log |-> <<"Failed to set up Meshtastic interface">>]
    ELSE [state |-> [m EXCEPT !.interface = "device", !.created = @ + 1,
                              !.subscribed = TRUE, !.fetched = @ + 1,
                              !.is_setup = TRUE],
          exc |-> "none",
          log |-> IF fetch_ok THEN <<>> ELSE <<"Failed to get node info">>]

MeshtasticSetup(m, create_ok, fetch_ok) ==
    IF ~create_ok
    THEN [state |-> m, exc |-> "Exception",
          log |-> <<"Failed to set up Meshtastic interface">>]
    ELSE [state |-> [m EXCEPT !.interface = "device", !.created = @ + 1,
                              !.subscribed = TRUE, !.fetched = @ + 1,
                              !.is_setup = TRUE],
          exc |-> "none",
          log |-> IF fetch_ok THEN <<>> ELSE <<"Failed to get node info">>]

\* close(): interface.close returns (close_ok) or raises, which close logs.
MeshtasticClose(m, close_ok) ==
    IF m.is_closing
    THEN [state |-> m, exc |-> "none",
          log |-> <<"Meshtastic interface is already closing, skipping.">>]
    ELSE IF ~m.is_setup
    THEN [state |-> [m EXCEPT !.is_closing = TRUE], exc |-> "none",
          log |-> <<"Meshtastic interface was not set up, skipping close.">>]
    ELSE [state |-> [m EXCEPT !.is_setup = FALSE, !.is_closing = FALSE,
                              !.subscribed = IF close_ok THEN FALSE ELSE @],
          exc |-> "none",
          log |-> IF close_ok THEN <<"Meshtastic interface closed.">>
                  ELSE <<"Error closing Meshtastic interface",
                         "Meshtastic interface closed.">>]

\* ------------------------------------------------------------- state
VARIABLES
    pending_messages,          \* MeshtasticInterface.pending_messages
    meshtastic_message_queue,  \* MeshtasticInterface.message_queue
    thread_safe_queue,         \* MeshtasticInterface.thread_safe_queue
    telegram_message_queue,    \* TelegramInterface.message_queue
    pending_acks,              \* MessageProcessor.pending_acks
    timeout_tasks,             \* the remove_pending_ack tasks that still sleep
    retry_sleep,               \* seconds process_pending_messages still sleeps
    ack_sweep_sleep,           \* seconds process_pending_acks still sleeps
    next_telegram_id,          \* the message id Telegram gives the next message
    next_packet_id,            \* the packet id the radio gives the next packet sent
    packets_received,          \* packets the radio has delivered
    sendtext_calls,            \* sendText calls made so far
    sent,                      \* history: chat message id -> what its send did
    reattempts,                \* history: text -> sendText calls the retry sweep made for it
    signals,                   \* history: chat message id -> how its record was removed
    last,                      \* what the last step did
    tasks,                     \* asyncio task -> "none", "running", "cancelling", "done"
    processing_tasks,          \* MessageProcessor.processing_tasks
    is_closing,                \* MessageProcessor.is_closing
    close_caller,              \* who awaits the close() of the processor that runs
    is_shutting_down,          \* Meshgram.is_shutting_down
    shutdown,                  \* where shutdown() stands
    components,                \* the components Meshgram.setup has created
    closes,                    \* history: the close() calls made on the components
    authorized_users,          \* telegram.authorized_users of the configuration
    radio_arrived,             \* history: the radio items in the order the radio delivered them
    radio_handled,             \* history: the radio items in the order the processor handled them
    rate_limiter,              \* RateLimiter: calls (ages) and the sleeps of suspended callers
    nodes,                     \* NodeManager.nodes: node id -> record, last_updated as age
    node_history,              \* NodeManager.node_history: node id -> snapshots
    message_id_map,            \* MessageProcessor.message_id_map
    reverse_message_id_map,    \* MessageProcessor.reverse_message_id_map
    meshtastic                 \* MeshtasticInterface: is_setup, is_closing, interface

vars == <<pending_messages, meshtastic_message_queue, thread_safe_queue,
          telegram_message_queue, pending_acks, timeout_tasks, retry_sleep,
          ack_sweep_sleep, next_telegram_id, next_packet_id, packets_received,
          sendtext_calls, sent, reattempts, signals, last, tasks,
          processing_tasks, is_closing, close_caller, is_shutting_down, shutdown,
          components, closes, authorized_users, radio_arrived, radio_handled,
          rate_limiter, nodes, node_history, message_id_map,
          reverse_message_id_map, meshtastic>>

\* What the steps of the message flow leave alone: the life cycle of the
\* bridge and the configuration.
bridge_state == <<processing_tasks, is_closing, close_caller, is_shutting_down,
                  shutdown, components, closes, authorized_users>>
radio_order == <<radio_arrived, radio_handled>>
node_state == <<nodes, node_history>>
id_maps == <<message_id_map, reverse_message_id_map>>

\* ------------------------------------------------------------- inputs
alice == <<"a", "l", "i", "c", "e">>
long_sender == <<"m", "e", "s", "h", "t", "a", "s", "t", "i", "c", "_", "f", "a", "n">>
hello == <<"h", "e", "l", "l", "o">>

\* The characters the tag adds around the sender: "[TG:" and "] ".
TagLen == Len(FormatTelegramText(<<>>, <<>>))

\* (sender, text) of the chat text events: a short one, one whose radio
\* message has exactly size_limit characters once the sender is cut to
\* sender_limit, and one whose radio message has size_limit + 1.
ChatInputs ==
    {<<alice, hello>>,
     <<long_sender, Rep("x", size_limit - TagLen - sender_limit)>>,
     <<alice, Rep("y", size_limit - TagLen - Len(alice) + 1)>>}

\* Packet ids of the routing packets the radio delivers (None: no id).
AckIds == {None, 1, 2}

PacketInputs ==
    {Packet("!a1", "!b2", "ROUTING_APP", id, <<>>) : id \in AckIds}
    \cup {Packet("!a1", "!b2", "TEXT_MESSAGE_APP", 7, <<"ping">>),
          Packet("!a1", "!b2", "NODEINFO_APP", 8, <<>>)}

NoMessage == [type |-> "", text |-> <<>>, sender |-> <<>>, message_id |-> None,
              user_id |-> None]
NoPacket == Packet("", "", "", None, <<>>)

Step(op, message, packet, radio, chat, exc, log) ==
    [op |-> op, message |-> message, packet |-> packet, radio |-> radio,
     chat |-> chat, exc |-> exc, log |-> log]

Idle(op) == Step(op, NoMessage, NoPacket, <<>>, <<>>, "none", <<>>)

\* ------------------------------------------------------------- Init
\* The bridge once Meshgram.run has set it up and created its tasks.
\* The running bridge whose configuration has the allow-list users.
Running(users) ==
    /\ pending_messages = <<>>
    /\ meshtastic_message_queue = <<>>
    /\ thread_safe_queue = <<>>
    /\ telegram_message_queue = <<>>
    /\ pending_acks = <<>>
    /\ timeout_tasks = <<>>
    /\ retry_sleep = 0
    /\ ack_sweep_sleep = 0
    /\ next_telegram_id = 1
    /\ next_packet_id = 1
    /\ packets_received = 0
    /\ sendtext_calls = 0
    /\ sent = <<>>
    /\ reattempts = <<>>
    /\ signals = <<>>
    /\ last = Idle("init")
    /\ tasks = [t \in MainTasks \cup ProcessingTasks |-> "running"]
    /\ processing_tasks = ProcessingTasks
    /\ is_closing = FALSE
    /\ close_caller = "none"
    /\ is_shutting_down = FALSE
    /\ shutdown = [pc |-> "idle", i |-> 0]
    /\ components = Range(ShutdownOrder)
    /\ closes = <<>>
    /\ authorized_users = users
    /\ radio_arrived = <<>>
    /\ radio_handled = <<>>
    /\ rate_limiter = [calls |-> <<>>, sleepers |-> <<>>]
    /\ nodes = <<>>
    /\ node_history = <<>>
    /\ message_id_map = <<>>
    /\ reverse_message_id_map = <<>>
    /\ meshtastic = MeshtasticSetup(NewMeshtasticInterface, TRUE, TRUE).state

Init == Running({})

\* ------------------------------------------------------------- actions
\* The callbacks of a component are called while it exists and no close()
\* has stopped it.
Receiving(component) ==
    /\ component \in components
    /\ \A i \in DOMAIN closes : closes[i].component # component

\* Telegram delivers a text message: on_telegram_message puts the event on
\* the chat queue and replies to the user.
OnTelegramMessage(sender, text) ==
    /\ Receiving("TelegramInterface")
    /\ next_telegram_id <= MaxEvents
    /\ LET message == [type |-> "telegram", text |-> text, sender |-> sender,
                       message_id |-> next_telegram_id, user_id |-> 1]
       IN  /\ telegram_message_queue' = Append(telegram_message_queue, message)
           /\ last' = Step("on_telegram_message", message, NoPacket, <<>>,
                           <<[op |-> "reply_text",
                              text |-> <<"Message received and will be sent to Meshtastic.">>,
                              message_id |-> next_telegram_id],
                             [op |-> "send_chat_action", text |-> <<"typing">>,
                              message_id |-> None]>>,
                           "none", <<>>)
    /\ next_telegram_id' = next_telegram_id + 1
    /\ UNCHANGED <<pending_messages, meshtastic_message_queue, thread_safe_queue,
                   pending_acks, timeout_tasks, retry_sleep, ack_sweep_sleep,
                   next_packet_id, packets_received, sendtext_calls, sent,
                   reattempts, signals>>
    /\ UNCHANGED <<tasks, bridge_state, radio_order, rate_limiter>>
    /\ UNCHANGED <<node_state, id_maps, meshtastic>>

\* Telegram delivers a location: on_telegram_location puts the event on the
\* chat queue, with the type 'telegram', and replies to the user.
OnTelegramLocation(sender, latitude, longitude) ==
    /\ Receiving("TelegramInterface")
    /\ next_telegram_id <= MaxEvents
    /\ LET message == [location |-> [latitude |-> latitude, longitude |-> longitude],
                       sender |-> sender, type |-> "telegram",
                       message_id |-> next_telegram_id]
       IN  /\ telegram_message_queue' = Append(telegram_message_queue, message)
           /\ last' = Step("on_telegram_location", message, NoPacket, <<>>,
                           <<Reply(<<"Location received and will be sent to meshtastic.">>,
                                   next_telegram_id)>>,
                           "none", <<>>)
    /\ next_telegram_id' = next_telegram_id + 1
    /\ UNCHANGED <<pending_messages, meshtastic_message_queue, thread_safe_queue,
                   pending_acks, timeout_tasks, retry_sleep, ack_sweep_sleep,
                   next_packet_id, packets_received, sendtext_calls, sent,
                   reattempts, signals>>
    /\ UNCHANGED <<tasks, bridge_state, radio_order, rate_limiter>>
    /\ UNCHANGED <<node_state, id_maps, meshtastic>>

\* self.commands of TelegramInterface: the handler setup registers for a
\* command.  A command without entry has no handler.
CommandTable ==
    [start |-> "start_command", help |-> "help_command", status |-> "handle_command",
     bell |-> "handle_command", location |-> "handle_command",
     telemetry |-> "handle_command", traceroute |-> "handle_command",
     node |-> "handle_command", user |-> "user_command"]

\* handle_command(update) of TelegramInterface for the command of user_id
\* in the update message_id: the event it enqueues (as a sequence) and its
\* replies.
HandleCommand(command, user_id, message_id, users) ==
    IF command \notin {"start", "help", "user", "status"}
       /\ ~IsUserAuthorized(user_id, users)
    THEN [queued |-> <<>>,
          chat |-> <<Reply(<<"You are not authorized to use this command.">>, message_id)>>]
    ELSE [queued |-> <<[type |-> "command", command |-> command, args |-> <<>>,
                        user_id |-> user_id]>>,
          chat |-> IF command \in {"location", "telemetry"}
                   THEN <<Reply(<<"Sending ", command, " request to ", "default node">>,
                                message_id)>>
                   ELSE <<>>]

\* Telegram delivers the command /command of user user_id: the handler
\* that setup registered for it runs.
OnTelegramCommand(command, user_id) ==
    /\ Receiving("TelegramInterface")
    /\ next_telegram_id <= MaxEvents
    /\ LET handler == IF command \in DOMAIN CommandTable THEN CommandTable[command]
                      ELSE "none"
           r == CASE handler = "handle_command" ->
                        HandleCommand(command, user_id, next_telegram_id, authorized_users)
                  [] handler \in {"start_command", "help_command"} ->
                        [queued |-> <<>>,
                         chat |-> <<Reply(<<"generate_help_text">>, next_telegram_id)>>]
                  [] handler = "user_command" ->
                        [queued |-> <<>>,
                         chat |-> <<Reply(<<"User Information">>, next_telegram_id)>>]
                  [] OTHER -> [queued |-> <<>>, chat |-> <<>>]
       IN  /\ telegram_message_queue' = telegram_message_queue \o r.queued
           /\ last' = Step(handler,
                           [type |-> "command", command |-> command, args |-> <<>>,
                            user_id |-> user_id, message_id |-> next_telegram_id],
                           NoPacket, <<>>, r.chat, "none", <<>>)
    /\ next_telegram_id' = next_telegram_id + 1
    /\ UNCHANGED <<pending_messages, meshtastic_message_queue, thread_safe_queue,
                   pending_acks, timeout_tasks, retry_sleep, ack_sweep_sleep,
                   next_packet_id, packets_received, sendtext_calls, sent,
                   reattempts, signals>>
    /\ UNCHANGED <<tasks, bridge_state, radio_order, rate_limiter>>
    /\ UNCHANGED <<node_state, id_maps, meshtastic>>

\* An event of type 'location' is put on the chat queue while it is empty.
\* (on_telegram_location above produces events of type 'telegram'.)
PutLocation(location) ==
    /\ Receiving("TelegramInterface")
    /\ next_telegram_id <= MaxEvents
    /\ telegram_message_queue = <<>>
    /\ LET message == [type |-> "location", location |-> location, sender |-> alice,
                       message_id |-> next_telegram_id]
       IN  /\ telegram_message_queue' = <<message>>
           /\ last' = Step("put", message, NoPacket, <<>>, <<>>, "none", <<>>)
    /\ next_telegram_id' = next_telegram_id + 1
    /\ UNCHANGED <<pending_messages, meshtastic_message_queue, thread_safe_queue,
                   pending_acks, timeout_tasks, retry_sleep, ack_sweep_sleep,
                   next_packet_id, packets_received, sendtext_calls, sent,
                   reattempts, signals>>
    /\ UNCHANGED <<tasks, bridge_state, radio_order, rate_limiter>>
    /\ UNCHANGED <<node_state, id_maps, meshtastic>>

\* An event of type 'reaction' is put on the chat queue while it is empty
\* (no receiver of the program produces one).
PutReaction(reaction) ==
    /\ Receiving("TelegramInterface")
    /\ next_telegram_id <= MaxEvents
    /\ telegram_message_queue = <<>>
    /\ LET message == reaction @@ [type |-> "reaction", sender |-> alice,
                                   message_id |-> next_telegram_id]
       IN  /\ telegram_message_queue' = <<message>>
           /\ last' = Step("put", message, NoPacket, <<>>, <<>>, "none", <<>>)
    /\ next_telegram_id' = next_telegram_id + 1
    /\ UNCHANGED <<pending_messages, meshtastic_message_queue, thread_safe_queue,
                   pending_acks, timeout_tasks, retry_sleep, ack_sweep_sleep,
                   next_packet_id, packets_received, sendtext_calls, sent,
                   reattempts, signals>>
    /\ UNCHANGED <<tasks, bridge_state, radio_order, rate_limiter>>
    /\ UNCHANGED <<node_state, id_maps, meshtastic>>

\* A call of _store_message_id_mapping (no code of the program makes one).
StoreMapping(telegram_id, meshtastic_id) ==
    /\ "MessageProcessor" \in components
    /\ LET r == StoreMessageIdMapping(message_id_map, reverse_message_id_map,
                                      telegram_id, meshtastic_id)
       IN  /\ message_id_map' = r.message_id_map
           /\ reverse_message_id_map' = r.reverse_message_id_map
    /\ last' = Idle("_store_message_id_mapping")
           @@ [stored |-> <<telegram_id, meshtastic_id>>]
    /\ UNCHANGED <<pending_messages, meshtastic_message_queue, thread_safe_queue,
                   telegram_message_queue, pending_acks, timeout_tasks, retry_sleep,
                   ack_sweep_sleep, next_telegram_id, next_packet_id, packets_received,
                   sendtext_calls, sent, reattempts, signals>>
    /\ UNCHANGED <<tasks, bridge_state, radio_order, rate_limiter>>
    /\ UNCHANGED <<node_state, meshtastic>>

\* The handler handle_telegram_message picks for an event.
HandlerOf(message) ==
    CASE message.type = "command" -> "handle_telegram_command"
      [] message.type = "telegram" -> "handle_telegram_text"
      [] message.type = "location" -> "handle_telegram_location"
      [] message.type = "reaction" -> "handle_telegram_reaction"
      [] OTHER -> "handle_telegram_message"

\* One round of process_telegram_messages: handle_telegram_message on the
\* head of the chat queue; an exception is caught and logged.
ProcessTelegramMessages(radio_ok) ==
    /\ tasks["process_telegram_messages"] = "running"
    /\ telegram_message_queue # <<>>
    /\ sendtext_calls < MaxSends
    /\ LET message == Head(telegram_message_queue)
           r == HandleTelegramMessage(message, pending_acks, authorized_users,
                                      message_id_map, radio_ok)
           called == r.send.calls # <<>>
           \* sendText returns the packet it sent, which carries the id the
           \* radio gave it; send_message logs it.
           result == IF called /\ radio_ok THEN next_packet_id ELSE None
           is_text == message.type = "telegram" /\ "text" \in DOMAIN message
       IN  /\ called \/ r.reaction # <<>> \/ radio_ok
           /\ telegram_message_queue' = Tail(telegram_message_queue)
           /\ pending_messages' = pending_messages \o r.send.pending
           /\ pending_acks' = r.acks
           /\ timeout_tasks' = timeout_tasks \o r.tasks
           /\ sendtext_calls' = sendtext_calls + Len(r.send.calls)
           /\ next_packet_id' = IF result # None THEN next_packet_id + 1 ELSE next_packet_id
           /\ sent' = IF is_text
                      THEN DictSet(sent, message.message_id,
                              [text |-> FormatTelegramText(message.sender, message.text),
                               raised |-> r.send.raised, called |-> called,
                               ok |-> called /\ radio_ok, id |-> result])
                      ELSE sent
           /\ signals' = IF is_text /\ r.send.raised = "none"
                         THEN DictSet(signals, message.message_id, <<>>)
                         ELSE signals
           /\ last' = Step(HandlerOf(message), message, NoPacket,
                           r.send.calls \o r.reaction, r.chat, r.exc, r.log)
                          @@ [ran |-> r.ran]
           /\ tasks' = [tasks EXCEPT !["process_telegram_messages"] = ConsumerAfter(r.exc)]
    /\ UNCHANGED <<meshtastic_message_queue, thread_safe_queue, retry_sleep,
                   ack_sweep_sleep, next_telegram_id, packets_received, reattempts>>
    /\ UNCHANGED <<bridge_state, radio_order, rate_limiter>>
    /\ UNCHANGED <<node_state, id_maps, meshtastic>>

\* The radio delivers a packet: on_meshtastic_message.
OnMeshtasticMessage(packet) ==
    /\ Receiving("MeshtasticInterface")
    /\ packets_received < MaxPackets
    /\ packets_received' = packets_received + 1
    /\ IF packet.portnum = "ROUTING_APP"
       THEN /\ meshtastic_message_queue' = Append(meshtastic_message_queue, AckData(packet))
            /\ UNCHANGED thread_safe_queue
       ELSE /\ thread_safe_queue' = Append(thread_safe_queue, packet)
            /\ UNCHANGED meshtastic_message_queue
    /\ last' = Step("on_meshtastic_message", NoMessage, packet, <<>>, <<>>, "none", <<>>)
    /\ UNCHANGED <<pending_messages, telegram_message_queue, pending_acks,
                   timeout_tasks, retry_sleep, ack_sweep_sleep, next_telegram_id,
                   next_packet_id, sendtext_calls, sent, reattempts, signals>>
    /\ radio_arrived' = Append(radio_arrived,
                            IF packet.portnum = "ROUTING_APP" THEN AckData(packet) ELSE packet)
    /\ UNCHANGED <<tasks, bridge_state, radio_handled, rate_limiter>>
    /\ UNCHANGED <<node_state, id_maps, meshtastic>>

\* One round of process_thread_safe_queue that finds a packet.
ProcessThreadSafeQueue ==
    /\ tasks["process_thread_safe_queue"] = "running"
    /\ thread_safe_queue # <<>>
    /\ meshtastic_message_queue' = Append(meshtastic_message_queue, Head(thread_safe_queue))
    /\ thread_safe_queue' = Tail(thread_safe_queue)
    /\ last' = Idle("process_thread_safe_queue")
    /\ UNCHANGED <<pending_messages, telegram_message_queue, pending_acks,
                   timeout_tasks, retry_sleep, ack_sweep_sleep, next_telegram_id,
                   next_packet_id, packets_received, sendtext_calls, sent,
                   reattempts, signals>>
    /\ UNCHANGED <<tasks, bridge_state, radio_order, rate_limiter>>
    /\ UNCHANGED <<node_state, id_maps, meshtastic>>

\* signals after the records of the chat messages ms were removed for cause
Signalled(ms, cause) ==
    [m \in DOMAIN signals |-> IF m \in ms THEN Append(signals[m], cause) ELSE signals[m]]

\* One round of process_meshtastic_messages: the head of the radio queue
\* goes to handle_ack or to handle_meshtastic_message; an exception is
\* caught and logged.
ProcessMeshtasticMessages ==
    /\ tasks["process_meshtastic_messages"] = "running"
    /\ meshtastic_message_queue # <<>>
    /\ LET message == Head(meshtastic_message_queue)
           r == IF message.type = "ack"
                THEN HandleAck(message, pending_acks)
                ELSE HandleMeshtasticMessage(message, pending_acks)
           ms == {r.resolved[i].telegram_message_id : i \in DOMAIN r.resolved}
       IN  /\ meshtastic_message_queue' = Tail(meshtastic_message_queue)
           /\ pending_acks' = r.acks
           /\ signals' = IF r.chat # <<>> /\ r.chat[1].op = "add_reaction"
                         THEN Signalled(ms, "ack") ELSE signals
           /\ last' = Step(IF message.type = "ack" THEN "handle_ack"
                                                   ELSE "handle_meshtastic_message",
                           NoMessage, message, <<>>, r.chat, r.exc, r.log)
           /\ tasks' = [tasks EXCEPT !["process_meshtastic_messages"] = ConsumerAfter(r.exc)]
    /\ UNCHANGED <<pending_messages, thread_safe_queue, telegram_message_queue,
                   timeout_tasks, retry_sleep, ack_sweep_sleep, next_telegram_id,
                   next_packet_id, packets_received, sendtext_calls, sent, reattempts>>
    /\ radio_handled' = Append(radio_handled, Head(meshtastic_message_queue))
    /\ LET message == Head(meshtastic_message_queue)
           store == IF message.type = "ack"
                    THEN [nodes |-> nodes, node_history |-> node_history]
                    ELSE HandleNodeStore(message, nodes, node_history)
       IN  /\ nodes' = store.nodes
           /\ node_history' = store.node_history
    /\ UNCHANGED <<bridge_state, radio_arrived, rate_limiter>>
    /\ UNCHANGED <<id_maps, meshtastic>>

\* The chat message ids of the records that acks holds under keys
Holders(acks, keys) == {acks[k].telegram_message_id : k \in keys}

\* One sweep of process_pending_acks, then its sleep.
ProcessPendingAcks ==
    /\ tasks["process_pending_acks"] = "running"
    /\ ack_sweep_sleep = 0
    /\ LET expired == ExpiredAcks(pending_acks) IN
           /\ pending_acks' = [k \in DOMAIN pending_acks \ expired |-> pending_acks[k]]
           /\ signals' = Signalled(Holders(pending_acks, expired), "expired")
           /\ last' = Step("process_pending_acks", NoMessage, NoPacket, <<>>, <<>>, "none",
                           IF expired = {} THEN <<>> ELSE <<"ACK timeout for message ID">>)
    /\ ack_sweep_sleep' = ack_sweep_interval
    /\ UNCHANGED <<pending_messages, meshtastic_message_queue, thread_safe_queue,
                   telegram_message_queue, timeout_tasks, retry_sleep,
                   next_telegram_id, next_packet_id, packets_received,
                   sendtext_calls, sent, reattempts>>
    /\ UNCHANGED <<tasks, bridge_state, radio_order, rate_limiter>>
    /\ UNCHANGED <<node_state, id_maps, meshtastic>>

\* The i-th remove_pending_ack task wakes up and ends.
RemovePendingAck(i) ==
    /\ i \in DOMAIN timeout_tasks
    /\ timeout_tasks[i].sleep = 0
    /\ LET expired == TimedOutAcks(timeout_tasks[i].message_id, pending_acks) IN
           /\ pending_acks' = [k \in DOMAIN pending_acks \ expired |-> pending_acks[k]]
           /\ signals' = Signalled(Holders(pending_acks, expired), "expired")
           /\ last' = Step("remove_pending_ack", NoMessage, NoPacket, <<>>, <<>>, "none",
                           IF expired = {} THEN <<>> ELSE <<"ACK timeout for message ID">>)
    /\ timeout_tasks' = [j \in 1..(Len(timeout_tasks) - 1) |->
                            IF j < i THEN timeout_tasks[j] ELSE timeout_tasks[j + 1]]
    /\ UNCHANGED <<pending_messages, meshtastic_message_queue, thread_safe_queue,
                   telegram_message_queue, retry_sleep, ack_sweep_sleep,
                   next_telegram_id, next_packet_id, packets_received,
                   sendtext_calls, sent, reattempts>>
    /\ UNCHANGED <<tasks, bridge_state, radio_order, rate_limiter>>
    /\ UNCHANGED <<node_state, id_maps, meshtastic>>

\* The number of calls in calls that carry text
CallsFor(calls, text) == Cardinality({i \in DOMAIN calls : calls[i].text = text})

\* One sweep of process_pending_messages, then its sleep; oks[i] tells
\* whether the radio accepts the i-th send of the sweep.
ProcessPendingMessages(oks) ==
    /\ tasks["process_pending_messages"] = "running"
    /\ retry_sleep = 0
    /\ sendtext_calls + Len(pending_messages) <= MaxSends
    /\ LET r == SweepPendingMessages(pending_messages, 1,
                    [list |-> pending_messages, calls |-> <<>>, log |-> <<>>], oks)
           texts == {r.calls[i].text : i \in DOMAIN r.calls}
       IN  /\ pending_messages' = r.list
           /\ sendtext_calls' = sendtext_calls + Len(r.calls)
           /\ next_packet_id' = next_packet_id
                                + Cardinality({i \in DOMAIN r.calls : r.calls[i].ok})
           /\ reattempts' = [t \in DOMAIN reattempts \cup texts |->
                                (IF t \in DOMAIN reattempts THEN reattempts[t] ELSE 0)
                                + CallsFor(r.calls, t)]
           /\ last' = Step("process_pending_messages", NoMessage, NoPacket, r.calls,
                           <<>>, "none", r.log)
    /\ retry_sleep' = retry_interval
    /\ UNCHANGED <<meshtastic_message_queue, thread_safe_queue, telegram_message_queue,
                   pending_acks, timeout_tasks, ack_sweep_sleep, next_telegram_id,
                   packets_received, sent, signals>>
    /\ UNCHANGED <<tasks, bridge_state, radio_order, rate_limiter>>
    /\ UNCHANGED <<node_state, id_maps, meshtastic>>

\* TickStep seconds pass: every age grows and every sleep shrinks.  An age
\* stops growing once it is past the interval it is compared with.
Older(age, interval) == Min(age + TickStep, interval + TickStep)
Shorter(sleep) == Max(sleep - TickStep, 0)

\* A node record whose stamps are TickStep seconds older.
Aged(node) ==
    [k \in DOMAIN node |->
        IF k \in {"last_updated", "last_position_update"}
        THEN Older(node[k], inactive_timeout) ELSE node[k]]

Tick ==
    /\ pending_acks' = [k \in DOMAIN pending_acks |->
                           [pending_acks[k] EXCEPT !.age = Older(@, ack_timeout)]]
    /\ pending_messages' = [i \in DOMAIN pending_messages |->
                               IF pending_messages[i].last_attempt = NoAttempt
                               THEN pending_messages[i]
                               ELSE [pending_messages[i] EXCEPT
                                        !.last_attempt = Older(@, retry_interval)]]
    /\ timeout_tasks' = [i \in DOMAIN timeout_tasks |->
                            [timeout_tasks[i] EXCEPT !.sleep = Shorter(@)]]
    /\ retry_sleep' = Shorter(retry_sleep)
    /\ ack_sweep_sleep' = Shorter(ack_sweep_sleep)
    /\ last' = Idle("tick")
    /\ UNCHANGED <<meshtastic_message_queue, thread_safe_queue, telegram_message_queue,
                   next_telegram_id, next_packet_id, packets_received,
                   sendtext_calls, sent, reattempts, signals>>
    /\ rate_limiter' = [calls |-> [i \in DOMAIN rate_limiter.calls |->
                                         Older(rate_limiter.calls[i], rate_period)],
                        sleepers |-> [i \in DOMAIN rate_limiter.sleepers |->
                                         Shorter(rate_limiter.sleepers[i])]]
    /\ nodes' = [n \in DOMAIN nodes |-> Aged(nodes[n])]
    /\ node_history' = [n \in DOMAIN node_history |->
                           [i \in DOMAIN node_history[n] |-> Aged(node_history[n][i])]]
    /\ UNCHANGED <<tasks, bridge_state, radio_order>>
    /\ UNCHANGED <<id_maps, meshtastic>>

\* A call of MeshtasticInterface.send_message(text, recipient) on an
\* interface whose device was created.
SendMessageCall(text, recipient, radio_ok) ==
    /\ meshtastic.interface # "none"
    /\ sendtext_calls < MaxSends
    /\ LET r == SendMessage(text, recipient, radio_ok)
       IN  /\ pending_messages' = pending_messages \o r.pending
           /\ sendtext_calls' = sendtext_calls + Len(r.calls)
           /\ next_packet_id' = IF r.calls # <<>> /\ radio_ok
                                 THEN next_packet_id + 1 ELSE next_packet_id
           /\ last' = Step("send_message", NoMessage, NoPacket, r.calls, <<>>,
                           r.raised, <<>>)
                          @@ [text |-> text, recipient |-> recipient]
    /\ UNCHANGED <<meshtastic_message_queue, thread_safe_queue,
                   telegram_message_queue, pending_acks, timeout_tasks, retry_sleep,
                   ack_sweep_sleep, next_telegram_id, packets_received, sent,
                   reattempts, signals>>
    /\ UNCHANGED <<tasks, bridge_state, radio_order, rate_limiter>>
    /\ UNCHANGED <<node_state, id_maps, meshtastic>>

\* A call of MeshtasticInterface.setup().
MeshtasticSetupCall(create_ok, fetch_ok) ==
    /\ meshtastic.created < MaxSetups
    /\ LET r == MeshtasticSetup(meshtastic, create_ok, fetch_ok)
       IN  /\ meshtastic' = r.state
           /\ last' = Step("setup", NoMessage, NoPacket, <<>>, <<>>, r.exc, r.log)
                          @@ [create_ok |-> create_ok, fetch_ok |-> fetch_ok]
    /\ UNCHANGED <<pending_messages, meshtastic_message_queue, thread_safe_queue,
                   telegram_message_queue, pending_acks, timeout_tasks, retry_sleep,
                   ack_sweep_sleep, next_telegram_id, next_packet_id, packets_received,
                   sendtext_calls, sent, reattempts, signals>>
    /\ UNCHANGED <<tasks, bridge_state, radio_order, rate_limiter>>
    /\ UNCHANGED <<node_state, id_maps>>

\* A call of MeshtasticInterface.close().
MeshtasticCloseCall(close_ok) ==
    /\ LET r == MeshtasticClose(meshtastic, close_ok)
       IN  /\ meshtastic' = r.state
           /\ last' = Step("close", NoMessage, NoPacket, <<>>, <<>>, r.exc, r.log)
    /\ UNCHANGED <<pending_messages, meshtastic_message_queue, thread_safe_queue,
                   telegram_message_queue, pending_acks, timeout_tasks, retry_sleep,
                   ack_sweep_sleep, next_telegram_id, next_packet_id, packets_received,
                   sendtext_calls, sent, reattempts, signals>>
    /\ UNCHANGED <<tasks, bridge_state, radio_order, rate_limiter>>
    /\ UNCHANGED <<node_state, id_maps>>

\* ------------------------------------------------- NodeManager calls
\* Everything but the node store and last.
node_frame == <<pending_messages, meshtastic_message_queue, thread_safe_queue,
                telegram_message_queue, pending_acks, timeout_tasks, retry_sleep,
                ack_sweep_sleep, next_telegram_id, next_packet_id, packets_received,
                sendtext_calls, sent, reattempts, signals, tasks, bridge_state,
                radio_order, rate_limiter, id_maps, meshtastic>>

\* A call of update_node(node_id, data).
UpdateNodeCall(node_id, data) ==
    /\ LET r == UpdateNode(nodes, node_history, node_id, data)
       IN  /\ nodes' = r.nodes
           /\ node_history' = r.node_history
    /\ last' = Idle("update_node") @@ [node_id |-> node_id, data |-> data]
    /\ UNCHANGED node_frame

\* A call of remove_node(node_id).
RemoveNodeCall(node_id) ==
    /\ LET r == RemoveNode(nodes, node_history, node_id)
       IN  /\ nodes' = r.nodes
           /\ node_history' = r.node_history
    /\ last' = Idle("remove_node") @@ [node_id |-> node_id, existed |-> node_id \in DOMAIN nodes]
    /\ UNCHANGED node_frame

\* A call of get_inactive_nodes(timeout).
GetInactiveNodesCall(timeout) ==
    /\ last' = Idle("get_inactive_nodes")
                   @@ [timeout |-> timeout, result |-> GetInactiveNodes(nodes, timeout)]
    /\ UNCHANGED node_frame
    /\ UNCHANGED node_state

\* A call of get_node_telemetry(node_id).
GetNodeTelemetryCall(node_id) ==
    /\ last' = Idle("get_node_telemetry")
                   @@ [node_id |-> node_id, text |-> GetNodeTelemetry(nodes, node_id)]
    /\ UNCHANGED node_frame
    /\ UNCHANGED node_state

\* A call of _get_battery_status(battery_level).
GetBatteryStatusCall(battery_level) ==
    /\ "MessageProcessor" \in components
    /\ last' = Idle("_get_battery_status")
                   @@ [level |-> battery_level, text |-> GetBatteryStatus(battery_level)]
    /\ UNCHANGED node_frame
    /\ UNCHANGED node_state

\* A call of get_status() while the radio reports battery_level.
GetStatusCall(battery_level) ==
    /\ meshtastic.interface # "none"
    /\ last' = Idle("get_status")
                   @@ [level |-> battery_level,
                       text |-> GetStatus([deviceMetrics |->
                                              [batteryLevel |-> battery_level]])]
    /\ UNCHANGED node_frame
    /\ UNCHANGED node_state

\* ------------------------------------------------------ RateLimiter
\* Is a call of the given age within the window?
InWindow(age) == age < rate_period

\* wait() up to its await, on the ages of the recorded calls: the calls
\* outside the window are dropped; with a full window the caller sleeps
\* until the oldest call leaves it, otherwise the call is recorded.
RateLimiterWait(calls) ==
    LET kept == SelectSeq(calls, InWindow) IN
    IF Len(kept) >= rate_max_calls
    THEN [calls |-> kept, sleep |-> <<rate_period - kept[1]>>]
    ELSE [calls |-> Append(kept, 0), sleep |-> <<>>]

\* What the rate limiter leaves alone.
bridge_flow == <<pending_messages, meshtastic_message_queue, thread_safe_queue,
                 telegram_message_queue, pending_acks, timeout_tasks, retry_sleep,
                 ack_sweep_sleep, next_telegram_id, next_packet_id, packets_received,
                 sendtext_calls, sent, reattempts, signals, tasks, bridge_state,
                 radio_order>>

\* A caller enters wait().
Wait ==
    /\ Len(rate_limiter.sleepers) < MaxWaiters
    /\ LET r == RateLimiterWait(rate_limiter.calls) IN
       /\ rate_limiter' = [calls |-> r.calls, sleepers |-> rate_limiter.sleepers \o r.sleep]
       /\ last' = Step("wait", NoMessage, NoPacket, <<>>, <<>>, "none",
                       IF r.sleep = <<>> THEN <<>> ELSE <<"sleep">>)
    /\ UNCHANGED bridge_flow
    /\ UNCHANGED <<node_state, id_maps, meshtastic>>

\* The sleep of the i-th suspended caller is over: the call is recorded.
WaitResume(i) ==
    /\ i \in DOMAIN rate_limiter.sleepers
    /\ rate_limiter.sleepers[i] = 0
    /\ rate_limiter' = [calls |-> Append(rate_limiter.calls, 0),
                        sleepers |-> [j \in 1..(Len(rate_limiter.sleepers) - 1) |->
                                         IF j < i THEN rate_limiter.sleepers[j]
                                         ELSE rate_limiter.sleepers[j + 1]]]
    /\ last' = Step("wait", NoMessage, NoPacket, <<>>, <<>>, "none", <<"resumed">>)
    /\ UNCHANGED bridge_flow
    /\ UNCHANGED <<node_state, id_maps, meshtastic>>

\* ------------------------------------------------------ life cycle
\* The bridge as constructed, before Meshgram.run.
InitNew ==
    /\ pending_messages = <<>>
    /\ meshtastic_message_queue = <<>>
    /\ thread_safe_queue = <<>>
    /\ telegram_message_queue = <<>>
    /\ pending_acks = <<>>
    /\ timeout_tasks = <<>>
    /\ retry_sleep = 0
    /\ ack_sweep_sleep = 0
    /\ next_telegram_id = 1
    /\ next_packet_id = 1
    /\ packets_received = 0
    /\ sendtext_calls = 0
    /\ sent = <<>>
    /\ reattempts = <<>>
    /\ signals = <<>>
    /\ last = Idle("init")
    /\ tasks = [t \in MainTasks \cup ProcessingTasks |-> "none"]
    /\ processing_tasks = {}
    /\ is_closing = FALSE
    /\ close_caller = "none"
    /\ is_shutting_down = FALSE
    /\ shutdown = [pc |-> "idle", i |-> 0]
    /\ components = {}
    /\ closes = <<>>
    /\ authorized_users = {}
    /\ radio_arrived = <<>>
    /\ radio_handled = <<>>
    /\ rate_limiter = [calls |-> <<>>, sleepers |-> <<>>]
    /\ nodes = <<>>
    /\ node_history = <<>>
    /\ message_id_map = <<>>
    /\ reverse_message_id_map = <<>>
    /\ meshtastic = NewMeshtasticInterface

\* What the steps of the life cycle leave alone.
message_flow == <<pending_messages, meshtastic_message_queue, thread_safe_queue,
                  telegram_message_queue, pending_acks, timeout_tasks, retry_sleep,
                  ack_sweep_sleep, next_telegram_id, next_packet_id, packets_received,
                  sendtext_calls, sent, reattempts, signals, authorized_users,
                  radio_arrived, radio_handled, rate_limiter>>

\* One entry of closes.
CloseEntry(component, caller, raised, skipped, cancelled) ==
    [component |-> component, caller |-> caller, raised |-> raised,
     skipped |-> skipped, cancelled |-> cancelled,
     tasks_done |-> AllDone(tasks, MainTasks)]

\* Meshgram.run: setup creates the components the outcome allows (the radio
\* interface, then the chat interface, then the processor); after a
\* complete setup run creates the tasks, and process_messages its three;
\* after a failed one setup calls shutdown().
Run(created) ==
    /\ ~is_shutting_down
    /\ components = {}
    /\ \A t \in DOMAIN tasks : tasks[t] = "none"
    /\ components' = created
    /\ IF created = Range(ShutdownOrder)
       THEN /\ tasks' = [t \in DOMAIN tasks |-> "running"]
            /\ processing_tasks' = ProcessingTasks
            /\ UNCHANGED <<is_shutting_down, shutdown>>
       ELSE /\ is_shutting_down' = TRUE
            /\ shutdown' = [pc |-> "gather", i |-> 0]
            /\ UNCHANGED <<tasks, processing_tasks>>
    /\ last' = Step("run", NoMessage, NoPacket, <<>>, <<>>, "none",
                    IF created = Range(ShutdownOrder) THEN <<"Meshgram is running.">>
                    ELSE <<"Error during setup">>)
    /\ UNCHANGED <<is_closing, close_caller, closes>>
    /\ UNCHANGED message_flow
    /\ meshtastic' = MeshtasticSetup(meshtastic, "MeshtasticInterface" \in created, TRUE).state
    /\ UNCHANGED <<node_state, id_maps>>

\* Meshgram.shutdown() is called: up to its await of the tasks.
ShutdownCall ==
    /\ IF ShutdownSkips(is_shutting_down)
       THEN /\ last' = Step("shutdown", NoMessage, NoPacket, <<>>, <<>>, "none",
                            <<"Shutdown already in progress, skipping.">>)
            /\ UNCHANGED <<is_shutting_down, tasks, shutdown>>
       ELSE /\ is_shutting_down' = TRUE
            /\ tasks' = Cancel(tasks, MainTasks)
            /\ shutdown' = [pc |-> "gather", i |-> 0]
            /\ last' = Step("shutdown", NoMessage, NoPacket, <<>>, <<>>, "none",
                            <<"Shutting down meshgram...">>)
    /\ UNCHANGED <<processing_tasks, is_closing, close_caller, components, closes>>
    /\ UNCHANGED message_flow
    /\ UNCHANGED <<node_state, id_maps, meshtastic>>

\* A cancelled task other than process_messages is resumed with
\* CancelledError: the consumers break out of their loop, the others let
\* the error end them.
Cancelled(t) ==
    /\ t # "process_messages"
    /\ tasks[t] = "cancelling"
    /\ tasks' = [tasks EXCEPT ![t] = IF t \in {"process_meshtastic_messages",
                                                "process_telegram_messages"}
                                     THEN ConsumerAfter("CancelledError")
                                     ELSE "done"]
    /\ last' = Step(t, NoMessage, NoPacket, <<>>, <<>>, "CancelledError", <<>>)
    /\ UNCHANGED <<processing_tasks, is_closing, close_caller, is_shutting_down,
                   shutdown, components, closes>>
    /\ UNCHANGED message_flow
    /\ UNCHANGED <<node_state, id_maps, meshtastic>>

\* process_messages leaves its gather, because it was cancelled (the gather
\* then cancels the three tasks) or because process_pending_acks ended
\* cancelled, and in its finally block calls close().
ProcessMessagesEnds ==
    /\ \/ tasks["process_messages"] = "cancelling"
       \/ /\ tasks["process_messages"] = "running"
          /\ tasks["process_pending_acks"] = "done"
    /\ LET ts == IF tasks["process_messages"] = "cancelling"
                 THEN Cancel(tasks, ProcessingTasks) ELSE tasks
           r == ProcessorClose(ts, processing_tasks, is_closing)
       IN  /\ tasks' = [r.tasks EXCEPT !["process_messages"] =
                                          IF r.waits THEN "closing" ELSE "done"]
           /\ is_closing' = r.is_closing
           /\ processing_tasks' = IF r.skipped \/ r.waits THEN processing_tasks ELSE {}
           /\ close_caller' = IF r.waits THEN "process_messages" ELSE close_caller
           /\ closes' = Append(closes, CloseEntry("MessageProcessor", "process_messages",
                                                  "none", r.skipped, r.cancelled))
           /\ last' = Step("close", NoMessage, NoPacket, <<>>, <<>>, "none",
                           IF r.skipped
                           THEN <<"MessageProcessor is already closing, skipping.">>
                           ELSE <<"Closing MessageProcessor...">>)
    /\ UNCHANGED <<is_shutting_down, shutdown, components>>
    /\ UNCHANGED message_flow
    /\ UNCHANGED <<node_state, id_maps, meshtastic>>

\* close() of the processor is called from outside the bridge.
ExternalClose ==
    /\ "MessageProcessor" \in components
    /\ Cardinality({i \in DOMAIN closes : closes[i].caller = "external"}) < MaxCloses
    /\ LET r == ProcessorClose(tasks, processing_tasks, is_closing)
       IN  /\ tasks' = r.tasks
           /\ is_closing' = r.is_closing
           /\ processing_tasks' = IF r.skipped \/ r.waits THEN processing_tasks ELSE {}
           /\ close_caller' = IF r.waits THEN "external" ELSE close_caller
           /\ closes' = Append(closes, CloseEntry("MessageProcessor", "external",
                                                  "none", r.skipped, r.cancelled))
           /\ last' = Step("close", NoMessage, NoPacket, <<>>, <<>>, "none",
                           IF r.skipped
                           THEN <<"MessageProcessor is already closing, skipping.">>
                           ELSE <<"Closing MessageProcessor...">>)
    /\ UNCHANGED <<is_shutting_down, shutdown, components>>
    /\ UNCHANGED message_flow
    /\ UNCHANGED <<node_state, id_maps, meshtastic>>

\* The gather of close() returns: the list is cleared, is_closing reset,
\* and the caller goes on.
CloseFinish ==
    /\ close_caller # "none"
    /\ AllDone(tasks, processing_tasks)
    /\ processing_tasks' = {}
    /\ is_closing' = FALSE
    /\ close_caller' = "none"
    /\ tasks' = IF close_caller = "process_messages"
                THEN [tasks EXCEPT !["process_messages"] = "done"] ELSE tasks
    /\ shutdown' = IF close_caller = "shutdown" THEN AfterComponent(shutdown.i)
                   ELSE shutdown
    /\ last' = Step("close", NoMessage, NoPacket, <<>>, <<>>, "none",
                    <<"MessageProcessor closed.">>)
    /\ UNCHANGED <<is_shutting_down, components, closes>>
    /\ UNCHANGED message_flow
    /\ UNCHANGED <<node_state, id_maps, meshtastic>>

\* The gather of shutdown() returns: every task of self.tasks is done.
ShutdownGather ==
    /\ shutdown.pc = "gather"
    /\ AllDone(tasks, MainTasks)
    /\ shutdown' = [pc |-> "components", i |-> 1]
    /\ last' = Idle("shutdown")
    /\ UNCHANGED <<tasks, processing_tasks, is_closing, close_caller,
                   is_shutting_down, components, closes>>
    /\ UNCHANGED message_flow
    /\ UNCHANGED <<node_state, id_maps, meshtastic>>

\* shutdown() closes its next component; close() of the chat interface
\* raises `raised`.
ShutdownComponent(raised) ==
    /\ shutdown.pc = "components"
    /\ close_caller # "shutdown"
    /\ LET component == ShutdownOrder[shutdown.i] IN
       CASE component \notin components ->
               /\ raised = "none"
               /\ shutdown' = AfterComponent(shutdown.i)
               /\ last' = Idle("shutdown")
               /\ UNCHANGED <<tasks, processing_tasks, is_closing, close_caller, closes>>
         [] component \in components /\ component = "MessageProcessor" ->
               LET r == ProcessorClose(tasks, processing_tasks, is_closing) IN
               /\ raised = "none"
               /\ tasks' = r.tasks
               /\ is_closing' = r.is_closing
               /\ processing_tasks' = IF r.skipped \/ r.waits THEN processing_tasks ELSE {}
               /\ close_caller' = IF r.waits THEN "shutdown" ELSE close_caller
               /\ closes' = Append(closes, CloseEntry(component, "shutdown", "none",
                                                      r.skipped, r.cancelled))
               /\ shutdown' = IF r.waits THEN shutdown ELSE AfterComponent(shutdown.i)
               /\ last' = Step("shutdown", NoMessage, NoPacket, <<>>, <<>>, "none",
                               <<"close ", component>>)
         [] component \in components /\ component # "MessageProcessor" ->
               /\ component = "MeshtasticInterface" => raised = "none"
               /\ closes' = Append(closes, CloseEntry(component, "shutdown", raised,
                                                      FALSE, {}))
               /\ shutdown' = IF GuardedClose(raised) = "none"
                              THEN AfterComponent(shutdown.i)
                              ELSE [pc |-> "raised", i |-> shutdown.i]
               /\ last' = Step("shutdown", NoMessage, NoPacket, <<>>, <<>>,
                               GuardedClose(raised),
                               IF raised = "none" THEN <<"close ", component>>
                               ELSE <<"Error closing ", component>>)
               /\ UNCHANGED <<tasks, processing_tasks, is_closing, close_caller>>
    /\ IF ShutdownOrder[shutdown.i] = "MeshtasticInterface"
          /\ "MeshtasticInterface" \in components
       THEN \E close_ok \in BOOLEAN :
                meshtastic' = MeshtasticClose(meshtastic, close_ok).state
       ELSE UNCHANGED meshtastic
    /\ UNCHANGED <<is_shutting_down, components>>
    /\ UNCHANGED message_flow
    /\ UNCHANGED <<node_state, id_maps>>

\* ------------------------------------------------------ specifications
\* What the environment does: Telegram delivers a text event, the radio
\* delivers a packet, time passes.
Chat(inputs) == \E input \in inputs : OnTelegramMessage(input[1], input[2])
Radio(packets) == \E packet \in packets : OnMeshtasticMessage(packet)

RoutingPackets == {packet \in PacketInputs : packet.portnum = "ROUTING_APP"}

\* The chat-to-radio direction: the radio delivers no packet.
ChatNext ==
    \/ Chat(ChatInputs)
    \/ \E radio_ok \in BOOLEAN : ProcessTelegramMessages(radio_ok)
    \/ ProcessPendingAcks
    \/ \E i \in DOMAIN timeout_tasks : RemovePendingAck(i)
    \/ \E oks \in [DOMAIN pending_messages -> BOOLEAN] : ProcessPendingMessages(oks)
    \/ Tick

ChatSpec == Init /\ [][ChatNext]_vars

\* The chat-to-radio direction within the first TickStep seconds: both
\* sweeps run once and no remove_pending_ack task wakes up.
TextNext ==
    \/ Chat(ChatInputs)
    \/ \E radio_ok \in BOOLEAN : ProcessTelegramMessages(radio_ok)
    \/ ProcessPendingAcks
    \/ \E oks \in [DOMAIN pending_messages -> BOOLEAN] : ProcessPendingMessages(oks)

TextSpec == Init /\ [][TextNext]_vars

\* Acknowledgments within the first TickStep seconds: the chat sends one
\* kind of text and the radio delivers routing packets only, so
\* thread_safe_queue stays empty.
AckNext ==
    \/ Chat({<<alice, hello>>})
    \/ Radio(RoutingPackets)
    \/ \E radio_ok \in BOOLEAN : ProcessTelegramMessages(radio_ok)
    \/ ProcessMeshtasticMessages
    \/ ProcessPendingAcks
    \/ \E oks \in [DOMAIN pending_messages -> BOOLEAN] : ProcessPendingMessages(oks)

AckSpec == Init /\ [][AckNext]_vars

\* Expiry: the chat sends one kind of text and the radio delivers no
\* packet.  The event loop runs the expiry sweep whenever its sleep is
\* over, and time passes.
ExpiryNext ==
    \/ Chat({<<alice, hello>>})
    \/ \E radio_ok \in BOOLEAN : ProcessTelegramMessages(radio_ok)
    \/ ProcessPendingAcks
    \/ \E i \in DOMAIN timeout_tasks : RemovePendingAck(i)
    \/ \E oks \in [DOMAIN pending_messages -> BOOLEAN] : ProcessPendingMessages(oks)
    \/ Tick

ExpirySpec ==
    Init /\ [][ExpiryNext]_vars /\ WF_vars(Tick) /\ WF_vars(ProcessPendingAcks)

\* The two consumer loops: the chat delivers locations, the radio delivers
\* a node info or an acknowledgment, and the bridge may be shut down.
\* The event loop runs a consumer whose queue holds an item.
Consumers == {"process_meshtastic_messages", "process_telegram_messages"}

berlin == [latitude |-> 525, longitude |-> 134]

ConsumerPackets ==
    {Packet("!a1", "!b2", "NODEINFO_APP", 8, <<>>),
     Packet("!a1", "!b2", "ROUTING_APP", 1, <<>>)}

ConsumerNext ==
    \/ OnTelegramLocation(alice, berlin.latitude, berlin.longitude)
    \/ Radio(ConsumerPackets)
    \/ ProcessTelegramMessages(TRUE)
    \/ ProcessThreadSafeQueue
    \/ ProcessMeshtasticMessages
    \/ ShutdownCall
    \/ ProcessMessagesEnds
    \/ \E t \in Consumers : Cancelled(t)

ConsumerSpec ==
    /\ Init /\ [][ConsumerNext]_vars
    /\ WF_vars(ProcessTelegramMessages(TRUE))
    /\ WF_vars(ProcessThreadSafeQueue)
    /\ WF_vars(ProcessMeshtasticMessages)

\* The radio-to-chat direction: the radio delivers packets of every kind
\* and the bridge moves them through its queues.
RadioNext ==
    \/ Radio(PacketInputs)
    \/ ProcessThreadSafeQueue
    \/ ProcessMeshtasticMessages

RadioSpec == Init /\ [][RadioNext]_vars

\* The life cycle of the bridge from its construction on: setup succeeds
\* or fails, shutdown() and close() of the processor are called at any
\* time and any number of times, and close() of the chat interface may
\* raise.  No message flows.
CloseOutcomes == {"none", "RuntimeError"}

LifecycleNext ==
    \/ \E created \in {{}, {"MeshtasticInterface"}, Range(ShutdownOrder)} : Run(created)
    \/ ShutdownCall
    \/ ExternalClose
    \/ \E t \in MainTasks \cup ProcessingTasks : Cancelled(t)
    \/ ProcessMessagesEnds
    \/ CloseFinish
    \/ ShutdownGather
    \/ \E raised \in CloseOutcomes : ShutdownComponent(raised)

LifecycleSpec == InitNew /\ [][LifecycleNext]_vars

\* The running bridge is shut down while the chat sends texts: every task
\* takes its steps, time passes, and no close() comes from outside.
ShutdownNext ==
    \/ Chat({<<alice, hello>>})
    \/ \E radio_ok \in BOOLEAN : ProcessTelegramMessages(radio_ok)
    \/ \E i \in DOMAIN timeout_tasks : RemovePendingAck(i)
    \/ Tick
    \/ ShutdownCall
    \/ \E t \in MainTasks \cup ProcessingTasks : Cancelled(t)
    \/ ProcessMessagesEnds
    \/ CloseFinish
    \/ ShutdownGather
    \/ \E raised \in CloseOutcomes : ShutdownComponent(raised)

ShutdownSpec == Init /\ [][ShutdownNext]_vars

\* The rate limiter with its callers, and time.
RateNext ==
    \/ Wait
    \/ \E i \in DOMAIN rate_limiter.sleepers : WaitResume(i)
    \/ Tick

RateSpec == Init /\ [][RateNext]_vars

\* Commands: the allow-list is empty or holds user 1, users 1 and 2 send
\* the commands Telegram has a handler for, and the processor handles the
\* events that handle_command puts on the queue.
UserIds == {1, 2}
AllowLists == {{}, {<<"1">>}}

CommandNext ==
    \/ \E command \in DOMAIN CommandTable, user_id \in UserIds :
          OnTelegramCommand(command, user_id)
    \/ \E radio_ok \in BOOLEAN : ProcessTelegramMessages(radio_ok)

CommandSpec == (\E users \in AllowLists : Running(users)) /\ [][CommandNext]_vars

\* Locations, in tenths: one that is valid, the same with one coordinate on,
\* just inside or just outside a limit, or missing, and two with more than
\* one coordinate out of range.
portland == [latitude |-> 455, longitude |-> -1226, altitude |-> 1000]

Without(location, key) == [k \in DOMAIN location \ {key} |-> location[k]]

LocationInputs ==
    {portland}
    \cup {[portland EXCEPT !.latitude = v] : v \in {-901, -900, -899, 899, 900, 901, 910}}
    \cup {[portland EXCEPT !.longitude = v] : v \in {-1801, -1800, 1800, 1801, 1810}}
    \cup {[portland EXCEPT !.altitude = v] :
              v \in {-20000, -10001, -10000, 0, 500000, 500001}}
    \cup {Without(portland, k) : k \in DOMAIN portland}
    \cup {[latitude |-> 910, longitude |-> 1810, altitude |-> -20000],
          [latitude |-> 900, longitude |-> -1800, altitude |-> 500000],
          Without(Without(portland, "latitude"), "longitude")}

LocationNext ==
    \/ \E location \in LocationInputs : PutLocation(location)
    \/ \E radio_ok \in BOOLEAN : ProcessTelegramMessages(radio_ok)

LocationSpec == Init /\ [][LocationNext]_vars

\* Reactions: events of type 'reaction' reach the chat consumer while
\* _store_message_id_mapping fills the two maps.
TelegramIds == {1, 2}
MeshtasticIds == {"a", "b"}

ReactionInputs ==
    {[emoji |-> "+1", original_message_id |-> t] : t \in TelegramIds \cup {0}}
    \cup {[emoji |-> "+1"], [original_message_id |-> 1],
          [emoji |-> "", original_message_id |-> 1]}

ReactionNext ==
    \/ \E reaction \in ReactionInputs : PutReaction(reaction)
    \/ \E t \in TelegramIds, m \in MeshtasticIds : StoreMapping(t, m)
    \/ \E radio_ok \in BOOLEAN : ProcessTelegramMessages(radio_ok)

ReactionSpec == Init /\ [][ReactionNext]_vars

\* Telemetry: the radio delivers TELEMETRY_APP packets of two nodes.
TelemetryPacket(node_id, id, battery_level) ==
    Packet(node_id, "^all", "TELEMETRY_APP", id,
           [telemetry |-> [deviceMetrics |-> [batteryLevel |-> battery_level]]])

TelemetryPackets ==
    {TelemetryPacket("!a1", 21, 80), TelemetryPacket("!a1", 22, 101),
     TelemetryPacket("!a1", 23, 0), TelemetryPacket("!b2", 24, 55),
     TelemetryPacket("!b2", 25, 100)}

TelemetryNext ==
    \/ Radio(TelemetryPackets)
    \/ ProcessThreadSafeQueue
    \/ ProcessMeshtasticMessages

TelemetrySpec == Init /\ [][TelemetryNext]_vars

\* The node store: update_node and get_inactive_nodes are called while time
\* passes.  Updates counts the update_node calls made so far (below
\* history_limit a history holds one snapshot for each).
NodeIds == {"!a1", "!b2"}

NodeDataInputs ==
    {[batteryLevel |-> 80], [batteryLevel |-> 101], [shortName |-> "nd"],
     [batteryLevel |-> 55, last_updated |-> 600]}

Timeouts == {0, 60, inactive_timeout}

RECURSIVE SumLen(_, _)
SumLen(hist, ids) ==
    IF ids = {} THEN 0
    ELSE LET n == CHOOSE x \in ids : TRUE
         IN  Len(hist[n]) + SumLen(hist, ids \ {n})

Updates == SumLen(node_history, DOMAIN node_history)

NodeNext ==
    \/ \E n \in NodeIds, data \in NodeDataInputs :
           Updates < MaxUpdates /\ UpdateNodeCall(n, data)
    \/ \E timeout \in Timeouts : GetInactiveNodesCall(timeout)
    \/ Tick

NodeSpec == Init /\ [][NodeNext]_vars

\* The history of one node: update_node is called with a growing uptime
\* until the history was full for MaxUpdates calls.
NextUptime ==
    IF "!a1" \in DOMAIN nodes THEN nodes["!a1"].uptimeSeconds + 1 ELSE 1

HistoryNext ==
    \E u \in 1..(history_limit + MaxUpdates) :
        u = NextUptime /\ UpdateNodeCall("!a1", [uptimeSeconds |-> u])

HistorySpec == Init /\ [][HistoryNext]_vars

\* Battery levels: the three places that render one, for every level the
\* radio reports (0..100, and 101 for external power); the node of the
\* store gets its level by one update.
BatteryLevels == 0..101

BatteryNext ==
    \/ \E b \in BatteryLevels :
           nodes = <<>> /\ UpdateNodeCall("!a1", [batteryLevel |-> b])
    \/ GetNodeTelemetryCall("!a1")
    \/ \E b \in BatteryLevels : GetBatteryStatusCall(b)
    \/ \E b \in BatteryLevels : GetStatusCall(b)

BatterySpec == Init /\ [][BatteryNext]_vars

\* send_message called on its own, with texts around the size limit and
\* with a missing text or recipient.
SendTexts == {<<>>, hello, Rep("x", size_limit), Rep("x", size_limit + 1)}
Recipients == {"", "!a1", "!b2"}

SendNext ==
    \E text \in SendTexts, recipient \in Recipients, radio_ok \in BOOLEAN :
        SendMessageCall(text, recipient, radio_ok)

SendSpec == Init /\ [][SendNext]_vars

\* One MeshtasticInterface from its construction on: setup, close and
\* get_status are called in any order.
StatusLevels == {0, 1, 50, 99, 100, 101}

InterfaceNext ==
    \/ \E create_ok, fetch_ok \in BOOLEAN : MeshtasticSetupCall(create_ok, fetch_ok)
    \/ \E close_ok \in BOOLEAN : MeshtasticCloseCall(close_ok)
    \/ \E b \in StatusLevels : GetStatusCall(b)

InterfaceSpec == InitNew /\ [][InterfaceNext]_vars

\* The bridge with everything its environment can do.
Next ==
    \/ Chat(ChatInputs)
    \/ Radio(PacketInputs)
    \/ \E radio_ok \in BOOLEAN : ProcessTelegramMessages(radio_ok)
    \/ ProcessThreadSafeQueue
    \/ ProcessMeshtasticMessages
    \/ ProcessPendingAcks
    \/ \E i \in DOMAIN timeout_tasks : RemovePendingAck(i)
    \/ \E oks \in [DOMAIN pending_messages -> BOOLEAN] : ProcessPendingMessages(oks)
    \/ Tick
    \/ OnTelegramLocation(alice, 525, 134)
    \/ \E command \in DOMAIN CommandTable : OnTelegramCommand(command, 1)
    \/ Wait
    \/ \E i \in DOMAIN rate_limiter.sleepers : WaitResume(i)
    \/ ShutdownCall
    \/ \E t \in MainTasks \cup ProcessingTasks : Cancelled(t)
    \/ ProcessMessagesEnds
    \/ CloseFinish
    \/ ShutdownGather
    \/ \E raised \in {"none", "RuntimeError"} : ShutdownComponent(raised)
    \/ \E location \in LocationInputs : PutLocation(location)
    \/ \E reaction \in ReactionInputs : PutReaction(reaction)
    \/ \E t \in TelegramIds, m \in MeshtasticIds : StoreMapping(t, m)
    \/ Radio(TelemetryPackets)
    \/ \E n \in NodeIds, data \in NodeDataInputs :
           Updates < MaxUpdates /\ UpdateNodeCall(n, data)
    \/ \E n \in NodeIds : RemoveNodeCall(n)
    \/ \E timeout \in Timeouts : GetInactiveNodesCall(timeout)
    \/ \E n \in NodeIds : GetNodeTelemetryCall(n)
    \/ \E b \in BatteryLevels : GetBatteryStatusCall(b)
    \/ \E b \in BatteryLevels : GetStatusCall(b)
    \/ \E text \in SendTexts, recipient \in Recipients, radio_ok \in BOOLEAN :
           SendMessageCall(text, recipient, radio_ok)
    \/ \E create_ok, fetch_ok \in BOOLEAN : MeshtasticSetupCall(create_ok, fetch_ok)
    \/ \E close_ok \in BOOLEAN : MeshtasticCloseCall(close_ok)
    \/ ExternalClose

Spec == Init /\ [][Next]_vars

\* Retries: the radio refuses some sends of chat texts and re-attempts and
\* accepts all later ones.  Budget counts the sendText calls made and those
\* still to come if the radio refuses none; a refusal adds one to it, so the
\* radio refuses at most MaxSends - MaxEvents sends.  The event loop runs
\* the retry sweep whenever its sleep is over.
Budget ==
    sendtext_calls + Len(pending_messages) + Len(telegram_message_queue)
        + (MaxEvents + 1 - next_telegram_id)

Sweep == \E oks \in [DOMAIN pending_messages -> BOOLEAN] : ProcessPendingMessages(oks)

RetryNext ==
    \/ Chat({<<alice, hello>>})
    \/ \E radio_ok \in BOOLEAN : ProcessTelegramMessages(radio_ok) /\ Budget' <= MaxSends
    \/ Sweep /\ Budget' <= MaxSends
    \/ Tick

RetrySpec ==
    Init /\ [][RetryNext]_vars /\ WF_vars(Tick) /\ WF_vars(Sweep /\ Budget' <= MaxSends)

\* Authorization: telegram.authorized_users is empty, holds user 1, holds a
\* user name, or holds both; users 1 and 2 send commands.
ConfiguredLists == AllowLists \cup {{alice}, {<<"1">>, alice}, {<<"-", "2">>}}

AuthSpec == (\E users \in ConfiguredLists : Running(users)) /\ [][CommandNext]_vars

\* Packets without a handler: the radio delivers a node info packet, a
\* range test packet, a routing packet and a packet without a port name,
\* while chat texts leave pending acknowledgments and pending messages.
DropPackets ==
    {Packet("!a1", "!b2", "NODEINFO_APP", 8, <<>>),
     Packet("!a1", "!b2", "RANGE_TEST_APP", 1, <<>>),
     Packet("!a1", "!b2", "ROUTING_APP", 1, <<>>),
     Packet("!a1", "!b2", "", 1, <<>>)}

DropNext ==
    \/ Chat({<<alice, hello>>})
    \/ \E radio_ok \in BOOLEAN : ProcessTelegramMessages(radio_ok)
    \/ Radio(DropPackets)
    \/ ProcessThreadSafeQueue
    \/ ProcessMeshtasticMessages

DropSpec == Init /\ [][DropNext]_vars

\* The node store under update_node and remove_node: nodes are updated and
\* removed in any order while time passes.
StoreNext ==
    \/ \E n \in NodeIds, data \in NodeDataInputs :
           Updates < MaxUpdates /\ UpdateNodeCall(n, data)
    \/ \E n \in NodeIds : RemoveNodeCall(n)
    \/ Tick

StoreSpec == Init /\ [][StoreNext]_vars

\* ------------------------------------------------------------ claims
\* Does acks hold a record of chat message m?
Holds(acks, m) == \E k \in DOMAIN acks : acks[k].telegram_message_id = m

\* The chat messages whose first send, with radio text t, the radio refused
FirstFailures(t) ==
    {m \in DOMAIN sent : sent[m].called /\ ~sent[m].ok /\ sent[m].text = t}

\* C1: a pending outbound message is re-attempted at most max_retries (3)
\* times: the retry sweep never makes more sendText calls for a text than
\* 3 for each chat message whose send of that text failed.
C1_AtMostThreeReattempts ==
    \A t \in DOMAIN reattempts :
        reattempts[t] <= max_retries * Cardinality(FirstFailures(t))

\* C2: as long as no record was resolved or expired, every chat text event
\* whose radio send succeeded has exactly one record in pending_acks, so k
\* such events leave k records.
C2_OneRecordPerSend ==
    (\A m \in DOMAIN signals : signals[m] = <<>>)
        => \A m \in DOMAIN sent :
              sent[m].ok =>
                 Cardinality({k \in DOMAIN pending_acks :
                                 pending_acks[k].telegram_message_id = m}) = 1

\* Is the routing packet that became item the acknowledgment of the record
\* acks[k]?  It carries an identifier, which is the record's key or the
\* packet id the radio returned when the record's chat message was sent.
AckOf(item, acks, k) ==
    /\ item.message_id # None
    /\ \/ item.message_id = k
       \/ sent[acks[k].telegram_message_id].id = item.message_id

Reaction(m) == [op |-> "add_reaction", text |-> <<"OK">>, message_id |-> m]

\* C3: when the orchestrator handles the acknowledgment of a pending
\* record, it removes the record and signals success (a reaction) on the
\* record's chat message.
C3_AckResolvesRecord ==
    [][last'.op = "handle_ack" =>
          \A k \in DOMAIN pending_acks :
              AckOf(last'.packet, pending_acks, k) =>
                  /\ ~Holds(pending_acks', pending_acks[k].telegram_message_id)
                  /\ Reaction(pending_acks[k].telegram_message_id) \in Range(last'.chat)
      ]_vars

FailureNotice ==
    [op |-> "send_message",
     text |-> <<"Failed to send message to Meshtastic. Please try again.">>,
     message_id |-> None]

\* C4: when the radio's sendText throws for a chat text event, a pending
\* outbound message with that text and recipient is enqueued and the chat
\* is sent a failure notification.
C4_FailureEnqueuesAndNotifies ==
    (last.op = "handle_telegram_text" /\ last.radio # <<>> /\ ~last.radio[1].ok)
        => /\ \E i \in DOMAIN pending_messages :
                  /\ pending_messages[i].text = last.radio[1].text
                  /\ pending_messages[i].recipient = last.radio[1].destinationId
           /\ FailureNotice \in Range(last.chat)

\* C5: every record in pending_acks belongs to a chat message whose send
\* the radio accepted.
C5_RecordsOnlyForAcceptedSends ==
    \A k \in DOMAIN pending_acks : sent[pending_acks[k].telegram_message_id].ok

\* C6: a record leaves pending_acks only when its acknowledgment is handled
\* or when it is at least ack_timeout seconds old.
C6_RemovedOnlyByAckOrTimeout ==
    [][\A k \in DOMAIN pending_acks :
          ~Holds(pending_acks', pending_acks[k].telegram_message_id)
              => \/ pending_acks[k].age >= ack_timeout
                 \/ last'.op = "handle_ack" /\ AckOf(last'.packet, pending_acks, k)
      ]_vars

\* C7: every pending acknowledgment is eventually removed, and an expiry
\* sweep leaves no record that is more than ack_timeout (60) seconds old.
C7_EveryRecordEventuallyRemoved ==
    /\ \A m \in 1..MaxEvents : Holds(pending_acks, m) ~> ~Holds(pending_acks, m)
    /\ [](last.op = "process_pending_acks"
            => \A k \in DOMAIN pending_acks : pending_acks[k].age <= 60)

\* C7 witness: the expiry sweep has just removed a record.
C7_Witness ==
    /\ last.op = "process_pending_acks"
    /\ last.log # <<>>
    /\ \E m \in DOMAIN signals : signals[m] = <<"expired">> /\ ~Holds(pending_acks, m)

\* C8: every record registered is removed by exactly one of the
\* acknowledgment, its timeout task and the expiry sweep: while it is
\* pending none has signalled, and once it is gone exactly one has.
C8_ExactlyOneRemoval ==
    \A m \in DOMAIN signals :
        IF Holds(pending_acks, m) THEN signals[m] = <<>> ELSE Len(signals[m]) = 1

\* C9: an acknowledgment whose identifier is no key of pending_acks makes
\* no chat call, raises nothing and leaves pending_acks as it is; and no
\* chat message is signalled success twice.
C9_UnknownAckIsNoOp ==
    [][last'.op = "handle_ack" =>
          /\ last'.packet.message_id \notin DOMAIN pending_acks
                => /\ pending_acks' = pending_acks
                   /\ last'.chat = <<>>
                   /\ last'.exc = "none"
          /\ \A m \in DOMAIN signals' :
                Cardinality({i \in DOMAIN signals'[m] : signals'[m][i] = "ack"}) <= 1
      ]_vars

\* C9 witness: an acknowledgment with an identifier that is no key was
\* handled while a record was pending.
C9_Witness ==
    /\ last.op = "handle_ack"
    /\ last.packet.message_id # None
    /\ last.packet.message_id \notin DOMAIN pending_acks
    /\ pending_acks # <<>>

\* The radio text of a chat text event: the sender cut to 10 characters in
\* the tag, then the text.
TaggedText(message) ==
    <<"[", "T", "G", ":">>
        \o SubSeq(message.sender, 1, IF Len(message.sender) < 10 THEN Len(message.sender) ELSE 10)
        \o <<"]", " ">> \o message.text

OneTaggedCall(step) ==
    /\ Len(step.radio) = 1
    /\ step.radio[1].text = TaggedText(step.message)
    /\ step.radio[1].destinationId = default_node_id

\* C10 as stated: handling a chat text event makes exactly one sendText
\* call, with the tagged text, to the default node.
C10_ExactlyOneCall ==
    last.op = "handle_telegram_text" => OneTaggedCall(last)

\* C10 as amended: handling a chat text event whose tagged radio text has
\* at most 230 characters makes exactly one sendText call, with the tagged
\* text, to the default node.
C10_ExactlyOneCallWithinLimit ==
    (last.op = "handle_telegram_text" /\ Len(TaggedText(last.message)) <= 230)
        => OneTaggedCall(last)

\* C10 witness: an event from a sender of more than 10 characters whose
\* tagged text has exactly 230 characters was sent.
C10_Witness ==
    /\ last.op = "handle_telegram_text"
    /\ Len(last.message.sender) > 10
    /\ Len(TaggedText(last.message)) = 230
    /\ Len(last.radio) = 1

\* The radio texts of which every send made for a chat message succeeded
AllAccepted(t) == \A m \in DOMAIN sent : sent[m].text = t => sent[m].ok

\* C11: a chat message whose radio send succeeded is never sent to the radio
\* again: its text is never in the pending outbound list and the retry sweep
\* makes no call for it, and the expiry of a pending acknowledgment (by the
\* sweep or by the timeout task) writes a log entry only: no sendText call,
\* no change of the pending outbound list.
C11_SuccessfulSendNeverRetried ==
    /\ [](\A m \in DOMAIN sent :
            AllAccepted(sent[m].text)
                => /\ \A i \in DOMAIN pending_messages :
                          pending_messages[i].text # sent[m].text
                   /\ sent[m].text \in DOMAIN reattempts
                          => reattempts[sent[m].text] = 0)
    /\ [][last'.op \in {"process_pending_acks", "remove_pending_ack"}
            => /\ last'.radio = <<>>
               /\ sendtext_calls' = sendtext_calls
               /\ pending_messages' = pending_messages]_vars

C11_Witness ==
    /\ last.op = "remove_pending_ack"
    /\ last.log # <<>>
    /\ \E m \in DOMAIN sent :
          sent[m].ok /\ signals[m] = <<"expired">> /\ AllAccepted(sent[m].text)
    /\ sendtext_calls = Cardinality(DOMAIN sent)

\* C12: a consumer loop survives every exception of a handler: a consumer
\* ends only when its task, cancelled before, is resumed with
\* CancelledError; after a round in which the handler raised, the consumer is
\* still running; and as long as the bridge is not shut down every queued
\* item is taken off its queue.
C12_ConsumersSurviveExceptions ==
    /\ [][\A c \in Consumers :
            /\ tasks'[c] = "done" /\ tasks[c] # "done"
                  => tasks[c] = "cancelling" /\ last'.exc = "CancelledError"
            /\ last'.exc \notin {"none", "CancelledError"} /\ tasks[c] = "running"
                  => tasks'[c] = "running"]_vars
    /\ (telegram_message_queue # <<>>) ~> (telegram_message_queue = <<>> \/ is_shutting_down)
    /\ (thread_safe_queue # <<>> \/ meshtastic_message_queue # <<>>)
          ~> ((thread_safe_queue = <<>> /\ meshtastic_message_queue = <<>>)
                \/ is_shutting_down)

\* The second location event is handled after the first made the handler
\* raise KeyError, and an acknowledgment after a NODEINFO_APP packet made
\* the handler raise AttributeError.
C12_Witness ==
    /\ last.op = "handle_telegram_text" /\ last.exc = "KeyError"
    /\ last.message.message_id = 2
    /\ Len(radio_handled) = 2 /\ radio_handled[1].portnum = "NODEINFO_APP"
    /\ radio_handled[2].type = "ack"
    /\ \A c \in Consumers : tasks[c] = "running"

\* s is an initial part of t.
IsPrefix(s, t) == Len(s) <= Len(t) /\ s = SubSeq(t, 1, Len(s))

\* C13: the processor handles the radio packets in the order in which they
\* arrived from the radio, acknowledgments and other packets alike: what it
\* has handled is at all times an initial part of what has arrived.
C13_RadioArrivalOrder == IsPrefix(radio_handled, radio_arrived)

\* The calls of close() on a component that shutdown() has made.
ClosedByShutdown(component) ==
    {i \in DOMAIN closes : closes[i].component = component /\ closes[i].caller = "shutdown"}

\* C14: shutdown() and close() of the processor never raise, in whatever
\* state they are called; shutdown() closes each component at most once
\* however often it is called, and a close() of the processor that follows
\* another one finds no task left to cancel.
C14_CloseIsIdempotent ==
    /\ last.op \in {"shutdown", "close"} => last.exc = "none"
    /\ shutdown.pc # "raised"
    /\ \A component \in Range(ShutdownOrder) : Cardinality(ClosedByShutdown(component)) <= 1
    /\ \A i, j \in DOMAIN closes :
          i < j /\ closes[i].component = "MessageProcessor"
                /\ closes[j].component = "MessageProcessor"
             => closes[i].cancelled \cap closes[j].cancelled = {}
    /\ \A i, j \in DOMAIN closes :
          i < j /\ closes[i].component = "MessageProcessor" /\ ~closes[i].skipped
                /\ closes[j].component = "MessageProcessor"
             => closes[j].cancelled = {}

\* shutdown() was called again after it had completed, and close() of the
\* processor three times, once of them while a close was in progress.
C14_Witness ==
    /\ shutdown.pc = "complete"
    /\ last.op = "shutdown" /\ last.log = <<"Shutdown already in progress, skipping.">>
    /\ \A component \in Range(ShutdownOrder) : Cardinality(ClosedByShutdown(component)) = 1
    /\ \E i, j, k \in DOMAIN closes :
          /\ i < j /\ j < k
          /\ closes[i].component = "MessageProcessor" /\ closes[i].cancelled = ProcessingTasks
          /\ closes[j].component = "MessageProcessor" /\ closes[j].skipped
          /\ closes[k].component = "MessageProcessor" /\ closes[k].caller = "shutdown"
          /\ ~closes[k].skipped

\* C15: shutdown() closes a component only when every task of the bridge is
\* done, it closes the processor before the chat interface and the chat
\* interface before the radio interface, and an exception of one close
\* neither leaves shutdown() nor keeps it from closing the components after
\* it: once shutdown() is complete every component that exists was closed.
C15_ShutdownOrder ==
    /\ \A i \in DOMAIN closes : closes[i].caller = "shutdown" => closes[i].tasks_done
    /\ \A i, j \in DOMAIN closes :
          i < j /\ closes[i].caller = "shutdown" /\ closes[j].caller = "shutdown"
             => \/ closes[i].component = "MessageProcessor"
                      /\ closes[j].component \in {"TelegramInterface", "MeshtasticInterface"}
                \/ closes[i].component = "TelegramInterface"
                      /\ closes[j].component = "MeshtasticInterface"
    /\ shutdown.pc # "raised"
    /\ last.op = "shutdown" => last.exc = "none"
    /\ shutdown.pc = "complete"
          => \A component \in components : ClosedByShutdown(component) # {}

\* shutdown() is complete, close() of the chat interface raised, and the
\* radio interface was closed after it.
C15_Witness ==
    /\ shutdown.pc = "complete"
    /\ components = Range(ShutdownOrder)
    /\ \E i, j, k \in DOMAIN closes :
          /\ i < j /\ j < k
          /\ closes[i].component = "MessageProcessor" /\ closes[i].caller = "shutdown"
          /\ closes[j].component = "TelegramInterface" /\ closes[j].raised = "RuntimeError"
          /\ closes[k].component = "MeshtasticInterface" /\ closes[k].raised = "none"

\* C16: when shutdown() has completed, every task the bridge created is
\* done: the tasks of run, the three tasks of process_messages, and the
\* remove_pending_ack task of every text that was sent.
C16_NoTaskPendingAfterShutdown ==
    shutdown.pc = "complete"
       => /\ AllDone(tasks, MainTasks \cup ProcessingTasks)
          /\ timeout_tasks = <<>>

\* C17: at no time does the window of the last rate_period seconds hold
\* more than rate_max_calls recorded calls.
C17_AtMostMaxCallsPerWindow ==
    Len(SelectSeq(rate_limiter.calls, InWindow)) <= rate_max_calls

\* The texts of the replies of the last step.
Replies == {last.chat[i].text : i \in {i \in DOMAIN last.chat : last.chat[i].op = "reply_text"}}

\* Is the sender of the command of the last step on the allow-list?
SenderAuthorized == IsUserAuthorized(last.message.user_id, authorized_users)

\* C18: a command other than start, help and user of a user who is not on
\* the allow-list is answered with 'not authorized' -- by the receiver, or,
\* when the receiver has put it on the queue, by the processor -- and runs no
\* handler; a command handler runs only for an exempt command or an
\* authorised user.
C18_UnauthorizedIsTold ==
    /\ last.op = "handle_command" /\ ~SenderAuthorized
          => \/ <<"You are not authorized to use this command.">> \in Replies
             \/ /\ telegram_message_queue # <<>>
                /\ telegram_message_queue[Len(telegram_message_queue)].command
                      = last.message.command
    /\ last.op = "handle_telegram_command"
          => /\ last.ran # <<>>
                  => SenderAuthorized \/ last.message.command \in {"start", "help", "user"}
             /\ ~SenderAuthorized /\ last.message.command \notin {"start", "help", "user"}
                  => /\ <<"You are not authorized to use this command.">> \in Replies
                     /\ last.ran = <<>>

\* C19: the processor answers a command event of an authorised user whose
\* command has no cmd_ handler with 'Unknown command'.
C19_UnknownCommandIsAnswered ==
    last.op = "handle_telegram_command" /\ SenderAuthorized
          /\ last.message.command \notin CmdHandlers
       => <<"Unknown command: ", last.message.command>> \in Replies

\* Is the coordinate key of the location of the last event present and
\* within low..high (in tenths)?
Within(key, low, high) ==
    /\ key \in DOMAIN last.message.location
    /\ low <= last.message.location[key] /\ last.message.location[key] <= high

\* C20: handle_telegram_location calls the radio exactly when the latitude
\* is within -90..90, the longitude within -180..180 and the altitude, 0
\* when it is missing, within -1000..50000, limits included; otherwise it
\* makes no radio call and reports invalid data to the chat.
C20_LocationSentIffValid ==
    last.op = "handle_telegram_location"
       => LET valid == /\ Within("latitude", -900, 900)
                       /\ Within("longitude", -1800, 1800)
                       /\ \/ "altitude" \notin DOMAIN last.message.location
                          \/ Within("altitude", -10000, 500000)
          IN  /\ valid <=> Len(last.radio) = 1
              /\ ~valid => /\ last.radio = <<>>
                           /\ Len(last.chat) = 1
                           /\ last.chat[1].text[1]
                                 = "Failed to send location to Meshtastic. Invalid data: "

\* A location on the limits was sent after one just outside them was
\* refused.
C20_Witness ==
    /\ last.op = "handle_telegram_location"
    /\ last.message.location = [latitude |-> 900, longitude |-> -1800, altitude |-> 500000]
    /\ Len(last.radio) = 1
    /\ last.message.message_id = 2
    /\ sendtext_calls = 1

\* The head of the chat queue is a reaction whose target has no entry in
\* message_id_map, and the chat consumer takes it.
UnmappedReactionHandled ==
    /\ telegram_message_queue # <<>>
    /\ Head(telegram_message_queue).type = "reaction"
    /\ \A t \in DOMAIN message_id_map :
           Get(Head(telegram_message_queue), "original_message_id") # <<t>>
    /\ telegram_message_queue' = Tail(telegram_message_queue)

\* C21: handling a reaction event whose target chat message has no entry in
\* the map of chat ids to radio ids makes no radio call, raises no
\* exception and changes no state of the bridge.
C21_UnmappedReactionDoesNothing ==
    [][UnmappedReactionHandled
          => /\ last'.op = "handle_telegram_reaction"
             /\ last'.radio = <<>>
             /\ last'.chat = <<>>
             /\ last'.exc = "none"
             /\ tasks' = tasks
             /\ UNCHANGED <<pending_messages, meshtastic_message_queue,
                            thread_safe_queue, pending_acks, timeout_tasks,
                            sendtext_calls, next_packet_id, bridge_state,
                            node_state, id_maps, meshtastic>>]_vars

\* A reaction to chat message 2 was handled without a radio call while
\* chat message 1 has a radio id.
C21_Witness ==
    /\ last.op = "handle_telegram_reaction"
    /\ Get(last.message, "original_message_id") = <<2>>
    /\ DOMAIN message_id_map = {1}
    /\ last.radio = <<>>
    /\ last.exc = "none"

\* C22: after any sequence of _store_message_id_mapping calls the map of
\* chat ids to radio ids and the map of radio ids to chat ids are mutually
\* inverse: each takes the values of the other back to their keys.
C22_MapsMutuallyInverse ==
    /\ \A t \in DOMAIN message_id_map :
           /\ message_id_map[t] \in DOMAIN reverse_message_id_map
           /\ reverse_message_id_map[message_id_map[t]] = t
    /\ \A m \in DOMAIN reverse_message_id_map :
           /\ reverse_message_id_map[m] \in DOMAIN message_id_map
           /\ message_id_map[reverse_message_id_map[m]] = m

\* The battery level a telemetry packet carries.
BatteryOf(packet) == packet.payload.telemetry.deviceMetrics.batteryLevel

\* C23: handling a radio telemetry packet from node n with battery level b
\* leaves the store with battery level b for n and makes exactly one chat
\* send-or-edit call, with the formatted telemetry text.
C23_TelemetryStoredAndPosted ==
    (last.op = "handle_meshtastic_message" /\ last.packet.portnum = "TELEMETRY_APP")
       => /\ last.packet.fromId \in DOMAIN nodes
          /\ nodes[last.packet.fromId].batteryLevel = BatteryOf(last.packet)
          /\ Len(last.chat) = 1
          /\ last.exc = "none"

\* The part of C23 about the store alone.
TelemetryStored ==
    (last.op = "handle_meshtastic_message" /\ last.packet.portnum = "TELEMETRY_APP")
       => /\ last.packet.fromId \in DOMAIN nodes
          /\ nodes[last.packet.fromId].batteryLevel = BatteryOf(last.packet)

\* The record get_node returns for the node of the update_node call that
\* was made last.
Updated == GetNode(nodes, last.node_id)[1]

\* The same record before that call.
Before == NodeOf(nodes, last'.node_id)

\* C24 as stated: after update_node(id, {k: v}) get_node(id) contains k: v
\* for every key k of the data; the fields set earlier under other keys
\* keep their values, and the record is created if it was missing.
C24_UpdateMergesEveryKey ==
    last.op = "update_node"
       => /\ GetNode(nodes, last.node_id) # <<>>
          /\ \A k \in DOMAIN last.data :
                 k \in DOMAIN Updated /\ Updated[k] = last.data[k]

\* C24: after update_node(id, {k: v}) get_node(id) contains k: v for every
\* key k of the data other than last_updated; the fields set earlier under
\* keys the data does not have, last_updated aside, keep their values; the
\* record is created if it was missing.
C24_UpdateMerges ==
    [][last'.op = "update_node"
          => /\ GetNode(nodes', last'.node_id) # <<>>
             /\ \A k \in DOMAIN last'.data \ {"last_updated"} :
                    /\ k \in DOMAIN Updated'
                    /\ Updated'[k] = last'.data[k]
             /\ \A k \in DOMAIN Before \ (DOMAIN last'.data \cup {"last_updated"}) :
                    /\ k \in DOMAIN Updated'
                    /\ Updated'[k] = Before[k]]_vars

\* A node that its first update created with a battery level got a short
\* name by its second update and kept the level.
C24_Witness ==
    /\ last.op = "update_node"
    /\ last.node_id = "!a1"
    /\ last.data = [shortName |-> "nd"]
    /\ DOMAIN nodes = {"!a1"}
    /\ DOMAIN nodes["!a1"] = {"batteryLevel", "shortName", "last_updated"}
    /\ nodes["!a1"].batteryLevel = 80
    /\ nodes["!a1"].shortName = "nd"

\* The history of node n, empty when there is none.
HistoryOf(hist, n) == IF n \in DOMAIN hist THEN hist[n] ELSE <<>>

\* C25: the history of a node never holds more than history_limit (100)
\* entries; an update of a node whose history is full evicts the oldest
\* entry, keeps the order of the others and puts the new snapshot last.
C25_HistoryBounded ==
    [][last'.op = "update_node"
          => LET n == last'.node_id
                 old == HistoryOf(node_history, n)
                 new == node_history'[n]
             IN  /\ Len(new) <= history_limit
                 /\ new[Len(new)] = nodes'[n]
                 /\ IF Len(old) = history_limit
                    THEN new = Append(Tail(old), nodes'[n])
                    ELSE new = Append(old, nodes'[n])]_vars

\* The history is full and lost its first entry: it runs from the second
\* snapshot to the one of the update made last.
C25_Witness ==
    /\ last.op = "update_node"
    /\ "!a1" \in DOMAIN node_history
    /\ Len(node_history["!a1"]) = history_limit
    /\ node_history["!a1"][1].uptimeSeconds = 2
    /\ node_history["!a1"][history_limit].uptimeSeconds = history_limit + 1

\* C26: the last-updated stamp of a node never decreases across successive
\* updates of that node (the clock taken as one that never runs
\* backwards): the stamp an update leaves is no older than the one it
\* found, and it is the time of the update.
C26_StampNeverDecreases ==
    [][(last'.op = "update_node" /\ last'.node_id \in DOMAIN nodes)
          => /\ nodes'[last'.node_id].last_updated <= nodes[last'.node_id].last_updated
             /\ nodes'[last'.node_id].last_updated = 0]_vars

\* A node whose stamp was 60 seconds old was updated, with data that
\* carries a stamp of its own.
C26_Witness ==
    /\ last.op = "update_node"
    /\ last.node_id = "!a1"
    /\ "last_updated" \in DOMAIN last.data
    /\ Len(node_history["!a1"]) = 2
    /\ node_history["!a1"][1].last_updated = 2 * TickStep
    /\ nodes["!a1"].last_updated = 0

\* C27: get_inactive_nodes(timeout) returns exactly the ids of the nodes
\* whose last-updated stamp is more than timeout seconds old.
C27_InactiveNodesExact ==
    last.op = "get_inactive_nodes"
       => \A n \in NodeIds :
              n \in last.result
                 <=> (n \in DOMAIN nodes /\ nodes[n].last_updated > last.timeout)

\* One node is exactly timeout seconds old and is not returned, the other
\* is older and is returned.
C27_Witness ==
    /\ last.op = "get_inactive_nodes"
    /\ last.timeout = 60
    /\ DOMAIN nodes = NodeIds
    /\ nodes["!a1"].last_updated = 60
    /\ nodes["!b2"].last_updated > 60
    /\ last.result = {"!b2"}

\* The number a sequence of decimal digits stands for.
RECURSIVE ParseNat(_)
ParseNat(digits) ==
    IF digits = <<>> THEN 0
    ELSE LET d == CHOOSE v \in 0..9 :
                      <<"0", "1", "2", "3", "4", "5", "6", "7", "8", "9">>[v + 1]
                          = digits[Len(digits)]
         IN  10 * ParseNat(SubSeq(digits, 1, Len(digits) - 1)) + d

\* Is text the rendering the claim gives for battery level b?
Renders(b, text) ==
    IF b = 101 THEN text = <<"P", "W", "R">>
    ELSE /\ Len(text) >= 2
         /\ text[Len(text)] = "%"
         /\ \A i \in 1..(Len(text) - 1) :
                text[i] \in {"0", "1", "2", "3", "4", "5", "6", "7", "8", "9"}
         /\ Len(text) > 2 => text[1] # "0"
         /\ ParseNat(SubSeq(text, 1, Len(text) - 1)) = b

C29_SendMessageCallsSendTextOnce ==
    (/\ last.op = "send_message"
     /\ last.text # <<>>
     /\ Len(last.text) <= 230
     /\ last.recipient # "")
       => /\ Len(last.radio) = 1
          /\ last.radio[1].text = last.text
          /\ last.radio[1].destinationId = last.recipient
          /\ last.exc = "none"

\* A text of exactly 230 characters went to node !b2 in one sendText call
\* that the radio refused.
C29_Witness ==
    /\ last.op = "send_message"
    /\ Len(last.text) = 230
    /\ last.recipient = "!b2"
    /\ Len(last.radio) = 1
    /\ ~last.radio[1].ok
    /\ sendtext_calls = 2

\* C30: after setup() returns, is_setup is true, the device interface was
\* created exactly once and the node info fetched exactly once by that
\* call; if creating the interface fails, the exception propagates, is_setup
\* stays false and nothing was created or fetched.  setup() returns exactly
\* when the interface could be created: a failure to fetch the node info is
\* logged only.
C30_SetupSetsUpOnce ==
    [][last'.op = "setup"
          => /\ last'.create_ok <=> last'.exc = "none"
             /\ last'.exc = "none"
                   => /\ meshtastic'.is_setup
                      /\ meshtastic'.interface # "none"
                      /\ meshtastic'.created = meshtastic.created + 1
                      /\ meshtastic'.fetched = meshtastic.fetched + 1
             /\ last'.exc # "none"
                   => /\ ~meshtastic.is_setup => ~meshtastic'.is_setup
                      /\ meshtastic'.created = meshtastic.created
                      /\ meshtastic'.fetched = meshtastic.fetched]_vars

\* setup() returned on a new interface although the node info could not be
\* fetched.
C30_Witness ==
    /\ last.op = "setup"
    /\ last.exc = "none"
    /\ ~last.fetch_ok
    /\ meshtastic.is_setup
    /\ meshtastic.created = 1
    /\ meshtastic.fetched = 1

\* C31: in the retry sweep, each re-attempt of a pending message that fails
\* adds one to the attempt count of that message and sets its last-attempt
\* time to the time of the sweep: after a sweep, every text whose
\* re-attempt the radio refused is in the pending list with an attempt
\* count of at least one and a last attempt made at the sweep.
C31_FailedReattemptCounts ==
    last.op = "process_pending_messages"
       => \A i \in DOMAIN last.radio :
              ~last.radio[i].ok
                 => \E j \in DOMAIN pending_messages :
                        /\ pending_messages[j].text = last.radio[i].text
                        /\ pending_messages[j].attempts >= 1
                        /\ pending_messages[j].last_attempt = 0

\* The radio accepts every send of the step.
NoRefusedSend == \A i \in DOMAIN last'.radio : last'.radio[i].ok

\* The texts of the calls of a sweep, in the order of the calls.
CallTexts(calls) == [i \in DOMAIN calls |-> calls[i].text]

\* C32: if from some point on the radio accepts every send, every message
\* in the pending outbound list is sent to the radio exactly once more and
\* removed (a sweep whose sends are all accepted makes one call for each
\* message of the list, in its order, and leaves the list empty), and the
\* pending list eventually becomes and stays empty, the retry sweep being
\* scheduled fairly.
C32_PendingListDrains ==
    /\ [][(last'.op = "process_pending_messages" /\ NoRefusedSend)
             => /\ CallTexts(last'.radio)
                      = [i \in DOMAIN pending_messages |-> pending_messages[i].text]
                /\ pending_messages' = <<>>]_vars
    /\ (<>[][NoRefusedSend]_vars) => <>[](pending_messages = <<>>)

\* Two messages that the radio had refused twice were sent once more in one
\* sweep and the list is empty.
C32_Witness ==
    /\ last.op = "process_pending_messages"
    /\ Len(last.radio) = 2
    /\ \A i \in DOMAIN last.radio : last.radio[i].ok
    /\ pending_messages = <<>>
    /\ sendtext_calls = MaxSends

\* C33: every location event that the chat receiver puts on the chat queue
\* is dispatched to the location handler and never to the text handler:
\* whenever the chat consumer has handled an event that carries a location,
\* the handler was handle_telegram_location.
C33_LocationToLocationHandler ==
    (/\ last.op \in {"handle_telegram_command", "handle_telegram_text",
                     "handle_telegram_location", "handle_telegram_reaction",
                     "handle_telegram_message"}
     /\ "location" \in DOMAIN last.message)
       => last.op = "handle_telegram_location"

\* C34: every command event that the chat receiver enqueues for an
\* authorised user reaches the command dispatch of the processor and yields
\* a reply to the user, the result of the command or 'Unknown command': when
\* the processor has handled such an event, it ran the handler of the
\* command or replied, and never dropped the event without a reply.
C34_EnqueuedCommandIsAnswered ==
    (last.op = "handle_telegram_command" /\ SenderAuthorized)
       => /\ last.ran # <<>> \/ Replies # {}
          /\ last.message.command \notin CmdHandlers
                => <<"Unknown command: ", last.message.command>> \in Replies

\* C35: a chat text event whose formatted radio message is longer than 230
\* characters is never passed to the radio: handling it makes no sendText
\* call, adds nothing to the pending outbound list, to pending_acks or to
\* the timeout tasks, and sends the chat a failure notification.
C35_OverlongTextIsRefused ==
    [][(/\ last'.op = "handle_telegram_text"
        /\ "text" \in DOMAIN last'.message
        /\ Len(TaggedText(last'.message)) > 230)
          => /\ last'.radio = <<>>
             /\ sendtext_calls' = sendtext_calls
             /\ pending_messages' = pending_messages
             /\ pending_acks' = pending_acks
             /\ timeout_tasks' = timeout_tasks
             /\ FailureNotice \in Range(last'.chat)]_vars

\* The second chat text, of 231 characters with its tag, was refused while
\* the first, which the radio had not accepted, is pending.
C35_Witness ==
    /\ last.op = "handle_telegram_text"
    /\ last.message.message_id = 2
    /\ Len(TaggedText(last.message)) = 231
    /\ last.radio = <<>>
    /\ FailureNotice \in Range(last.chat)
    /\ Len(pending_messages) = 1

\* C36: for every sequence of setup() and close() calls on the radio
\* interface, a close() issued while the interface is set up and no other
\* close is executing closes the device and returns with is_setup = false
\* and is_closing = false; an earlier close() on an interface that was not
\* yet set up does not disable later closes.
C36_CloseOfSetUpInterfaceCloses ==
    [][(last'.op = "close" /\ meshtastic.is_setup)
          => /\ ~meshtastic'.is_setup
             /\ ~meshtastic'.is_closing
             /\ last'.log[Len(last'.log)] = "Meshtastic interface closed."]_vars

\* Does the last step send the chat a text that begins with first?
ChatTold(first) == \E i \in DOMAIN last.chat : last.chat[i].text[1] = first

\* C37: the chat confirmation that a location was sent to the mesh network
\* is emitted only if the radio accepted the location message; when the
\* radio send fails, the chat receives a failure message and no
\* confirmation.
C37_ConfirmationOnlyIfAccepted ==
    last.op = "handle_telegram_location"
       => /\ ChatTold("Location sent to Meshtastic network: lat=")
                => /\ last.radio # <<>>
                   /\ last.radio[1].ok
          /\ (last.radio # <<>> /\ ~last.radio[1].ok)
                => ChatTold("Failed to send location to Meshtastic. Please try again.")

\* C38: if the configured allow-list holds at least one entry, a user whose
\* identifier is not one of the entries is never authorised: whenever the
\* receiver has checked a command of such a user, is_user_authorized was
\* false for that user.
C38_ListedUsersOnly ==
    (/\ last.op = "handle_command"
     /\ authorized_users # {}
     /\ Digits(last.message.user_id) \notin authorized_users)
       => ~IsUserAuthorized(last.message.user_id, authorized_users)

\* The port names that have a handler of their own.
HandledPorts ==
    {"TEXT_MESSAGE_APP", "NODEINFO_APP", "POSITION_APP", "TELEMETRY_APP", "ADMIN_APP"}

\* C39: a radio packet whose port type is not text message, node info,
\* position, telemetry or admin is logged and dropped: the step of the
\* consumer that handles it writes a log line, makes no chat call and no
\* radio call, and leaves the node records, the node histories, the pending
\* acknowledgments and the pending outbound messages as they were.
C39_UnhandledPortIsDropped ==
    [][(/\ last'.op \in {"handle_meshtastic_message", "handle_ack"}
        /\ last'.packet.portnum \notin HandledPorts)
          => /\ last'.log # <<>>
             /\ last'.chat = <<>> /\ last'.radio = <<>> /\ last'.exc = "none"
             /\ sent' = sent /\ sendtext_calls' = sendtext_calls
             /\ UNCHANGED <<nodes, node_history, pending_acks, pending_messages>>]_vars

C39_Witness ==
    /\ last.op = "handle_meshtastic_message"
    /\ last.packet.portnum = "RANGE_TEST_APP"
    /\ last.log = <<"Unhandled Meshtastic message type">>
    /\ nodes # <<>> /\ pending_acks # <<>> /\ pending_messages # <<>>

\* C40: after any sequence of update_node and remove_node calls, the node
\* ids that have a record are the node ids that have a history list, and
\* the last snapshot of every non-empty history equals the current record
\* of its node.
C40_RecordsAndHistoriesAgree ==
    /\ DOMAIN nodes = DOMAIN node_history
    /\ \A n \in DOMAIN node_history :
           node_history[n] # <<>> => node_history[n][Len(node_history[n])] = nodes[n]

C40_Witness ==
    /\ last.op = "remove_node" /\ last.existed
    /\ last.node_id \notin DOMAIN nodes
    /\ \E n \in DOMAIN nodes : node_history[n] # <<>> /\ nodes[n].last_updated > 0

====
